---- MODULE Spec2Model ----
(***************************************************************************)
(* Scrape pipeline of researchly: the crawl orchestrator                   *)
(* (convex/tools/crawl/orchestrator.ts), its two fetch strategies          *)
(* (native.ts, browserless_generic.ts), the extraction quality gate and    *)
(* the process-local scrape cache.                                         *)
(*                                                                         *)
(* Strings are sequences of tokens; String.includes is token membership.   *)
(* The tokens are the substrings the code searches for ("HTTP 4",          *)
(* "timeout", "Content too short", ...) and the literal pieces of the      *)
(* template strings the code builds.  HTML is a page descriptor whose      *)
(* fields are the quantities the extractor computes from the markup.       *)
(***************************************************************************)
EXTENDS Integers, Sequences, FiniteSets, TLC

(***************************************************************************)
(* Bounds of the model.                                                    *)
(***************************************************************************)
NumCalls == 2        \* scrape calls that may be in flight together
NumUrls  == 2        \* distinct valid URLs the callers ask for
MaxTicks == 2        \* the clock advances at most this many times
MaxQueries == 2      \* planned search queries of one research pass
MaxResults == 2      \* results in one search response
MaxScrape  == 2      \* largest maxScrapeUrls a caller passes
MaxEarly   == 1      \* new URLs stored before the old ones stop being asked for
MaxList    == 3      \* candidates handed to selectScrapeTargets on its own
NumTokens == 2
MaxInFlight == 2     \* sends of the follow-up hook not yet settled
MaxChatChanges == 2  \* times the user moves to another chat
MaxMessages == 6     \* messages of the chat the follow-up hook watches

(***************************************************************************)
(* Program constants.                                                      *)
(***************************************************************************)
MAX_CONTENT_LENGTH       == 12000
MIN_CONTENT_LENGTH       == 100
SUMMARY_MAX_LENGTH       == 500
SCRAPE_CACHE_MAX_ENTRIES == 100
ERROR_CACHE_TTL_MS       == 30000
MAX_BROWSERLESS_ATTEMPTS == 2
RETRY_BASE_DELAY_MS      == 250
FOLLOW_UP_COOLDOWN_MESSAGES == 4
MinUserMessages == 4
RATE_LIMIT_HTTP_STATUS   == 429
SCRAPE_TOOL_TIMEOUT_MS   == 35000
NATIVE_TIMEOUT_MS        == 10000
\* BROWSERLESS.FETCH_TIMEOUT_MS lives in convex/lib/constants/cache.ts; its
\* value is given in docs/domains/scraping-crawling.md.
BROWSERLESS_FETCH_TIMEOUT_MS == 20000
\* BROWSERLESS.UNBLOCK_FETCH_TIMEOUT_MS is not documented; taken to be no
\* shorter than the /content timeout.
BROWSERLESS_UNBLOCK_FETCH_TIMEOUT_MS == BROWSERLESS_FETCH_TIMEOUT_MS
\* CONTENT_LIMITS.MIN_CONTENT_LENGTH (convex/lib/constants/cache.ts): the
\* documented floor of usable content, the same 100 characters.
CONTENT_LIMITS_MIN_CONTENT_LENGTH == MIN_CONTENT_LENGTH
\* Relevance scores are kept in tenths: 5 is the default 0.5 given to a
\* search result without a score, RELEVANCE_SCORES.SCRAPED_PAGE
\* (convex/lib/constants/cache.ts) is taken to be the highest score.
DefaultRelevance == 5
RELEVANCE_SCORES_SCRAPED_PAGE == 2 * DefaultRelevance
\* CACHE_TTL.SCRAPE_MS lives in convex/lib/constants/cache.ts; only its
\* ordering against the failure TTL is documented (success TTL is longer).
CACHE_TTL_SCRAPE_MS      == 2 * ERROR_CACHE_TTL_MS

\* a warm cache is a full one
PreFill == SCRAPE_CACHE_MAX_ENTRIES

CallIds == 1..NumCalls
Urls    == 1..NumUrls
FillUrls == (NumUrls + 1)..(NumUrls + PreFill)

(***************************************************************************)
(* Strings.                                                                *)
(***************************************************************************)
includes(message, token) == \E i \in DOMAIN message : message[i] = token

Min(a, b) == IF a < b THEN a ELSE b

\* `HTTP ${response.status}`: the token keeps the first digit of the status.
HttpStatusText(status) ==
  CASE status \div 100 = 4 -> <<"HTTP 4", "xx">>
    [] status \div 100 = 5 -> <<"HTTP 5", "xx">>
    [] OTHER               -> <<"HTTP 3", "xx">>

(***************************************************************************)
(* FetchResult.  tag "success" / "failure" are the two variants of the     *)
(* contract; tag "raised" is a call that ended by throwing.                *)
(***************************************************************************)
NoPage == [title |-> "", main |-> 0, rsc |-> 0, junk |-> 0,
           lowq |-> FALSE, needsRender |-> FALSE]

FetchSuccess(html) ==
  [tag |-> "success", html |-> html, errorCode |-> "", message |-> <<>>]
FetchFailure(errorCode, message) ==
  [tag |-> "failure", html |-> NoPage, errorCode |-> errorCode,
   message |-> message]
FetchRaised(message) ==
  [tag |-> "raised", html |-> NoPage, errorCode |-> "", message |-> message]

(***************************************************************************)
(* The network as seen by one fetch() call.                                *)
(*   kind "reject":   fetch() rejects with Error(message)                  *)
(*   kind "response": fetch() resolves; reading the body either yields     *)
(*                    the page (bodyOk) or rejects (transport fault /      *)
(*                    invalid JSON).                                       *)
(***************************************************************************)
NetReject(message) ==
  [kind |-> "reject", message |-> message, status |-> 0, isHtml |-> FALSE,
   siteStatus |-> 0, bodyOk |-> TRUE, page |-> NoPage, empty |-> FALSE]
NetResponse(status, isHtml, siteStatus, bodyOk, page, empty) ==
  [kind |-> "response", message |-> <<>>, status |-> status, isHtml |-> isHtml,
   siteStatus |-> siteStatus, bodyOk |-> bodyOk, page |-> page,
   empty |-> empty]

\* no request has settled yet
NoNet ==
  [kind |-> "none", message |-> <<>>, status |-> 0, isHtml |-> FALSE,
   siteStatus |-> 0, bodyOk |-> TRUE, page |-> NoPage, empty |-> FALSE]

BodyFault == <<"terminated">>

fetchNative(net) ==
  IF net.kind = "reject"
  THEN LET isTimeout == includes(net.message, "timeout")
                        \/ includes(net.message, "abort")
       IN FetchFailure(IF isTimeout THEN "TIMEOUT" ELSE "FETCH_FAILED",
                       net.message)
  ELSE IF ~(net.status >= 200 /\ net.status <= 299)
  THEN LET isClientError == net.status >= 400 /\ net.status < 500
       IN FetchFailure(IF isClientError THEN "HTTP_CLIENT_ERROR"
                                        ELSE "HTTP_SERVER_ERROR",
                       HttpStatusText(net.status))
  ELSE IF ~net.isHtml
  THEN FetchFailure("NOT_HTML", <<"Not an HTML", " page. Content-Type: ">>)
  ELSE IF ~net.bodyOk
  THEN FetchRaised(BodyFault)
  ELSE FetchSuccess(net.page)

(***************************************************************************)
(* Headless Render strategy (Browserless).                                 *)
(***************************************************************************)
CallOk(html) ==
  [tag |-> "success", html |-> html, errorCode |-> "", message |-> <<>>,
   shouldRetry |-> FALSE, shouldTryUnblock |-> FALSE]
callError(errorCode, message, shouldRetry, shouldTryUnblock) ==
  [tag |-> "failure", html |-> NoPage, errorCode |-> errorCode,
   message |-> message, shouldRetry |-> shouldRetry,
   shouldTryUnblock |-> shouldTryUnblock]
CallRaised(message) ==
  [tag |-> "raised", html |-> NoPage, errorCode |-> "", message |-> message,
   shouldRetry |-> FALSE, shouldTryUnblock |-> FALSE]

\* mutant: every error status is retried
classifyHttpStatus_RetryClient(status, message) ==
  callError(IF status >= 400 /\ status < 500 THEN "HTTP_CLIENT_ERROR"
                                             ELSE "HTTP_SERVER_ERROR",
            message,
            status >= 400,
            status = 403)

classifyHttpStatus(status, message) ==
  callError(IF status >= 400 /\ status < 500 THEN "HTTP_CLIENT_ERROR"
                                             ELSE "HTTP_SERVER_ERROR",
            message,
            status = RATE_LIMIT_HTTP_STATUS \/ status >= 500,
            status = 403)

SiteStatusText(status) ==
  CASE status = 403          -> <<"Target site returned", "403">>
    [] status \div 100 = 4   -> <<"Target site returned", "4xx">>
    [] OTHER                 -> <<"Target site returned", "5xx">>

callContentApi(net) ==
  IF net.kind = "reject"
  THEN LET isTimeout == includes(net.message, "timeout")
                        \/ includes(net.message, "abort")
       IN callError(IF isTimeout THEN "TIMEOUT" ELSE "FETCH_FAILED",
                    <<"Browserless: ">> \o net.message, isTimeout, FALSE)
  ELSE IF ~(net.status >= 200 /\ net.status <= 299)
  THEN classifyHttpStatus(net.status,
         <<"Browserless API error: ">> \o HttpStatusText(net.status))
  ELSE IF net.siteStatus >= 400
  THEN classifyHttpStatus(net.siteStatus, SiteStatusText(net.siteStatus))
  ELSE IF ~net.bodyOk
  THEN CallRaised(BodyFault)
  ELSE IF net.empty
  THEN callError("FETCH_FAILED", <<"Browserless returned empty HTML">>,
                 FALSE, FALSE)
  ELSE CallOk(net.page)

callUnblockApi(net) ==
  IF net.kind = "reject"
  THEN callError("FETCH_FAILED",
                 <<"Browserless /unblock request failed: ">> \o net.message,
                 FALSE, FALSE)
  ELSE IF ~(net.status >= 200 /\ net.status <= 299)
  THEN LET isClientError == net.status >= 400 /\ net.status < 500
       IN callError(IF isClientError THEN "HTTP_CLIENT_ERROR"
                                     ELSE "HTTP_SERVER_ERROR",
                    <<"Browserless /unblock error: ">>
                      \o HttpStatusText(net.status),
                    FALSE, FALSE)
  ELSE IF ~net.bodyOk
  THEN CallRaised(<<"Unexpected token">>)
  ELSE IF net.empty
  THEN callError("FETCH_FAILED",
                 <<"Browserless /unblock returned empty content">>,
                 FALSE, FALSE)
  ELSE CallOk(net.page)

NotConfigured ==
  FetchFailure("FETCH_FAILED", <<"Browserless not configured">>)

\* What fetchBrowserless returns when a /content or /unblock call ends it.
BrowserlessReturn(result) ==
  CASE result.tag = "success" -> FetchSuccess(result.html)
    [] result.tag = "raised"  -> FetchRaised(result.message)
    [] OTHER                  -> FetchFailure(result.errorCode, result.message)

\* mutant: the /content message is dropped from the combined failure
UnblockReturn_UnblockOnly(contentResult, unblockResult) ==
  CASE unblockResult.tag = "success" -> FetchSuccess(unblockResult.html)
    [] unblockResult.tag = "raised"  -> FetchRaised(unblockResult.message)
    [] OTHER -> FetchFailure(unblockResult.errorCode, unblockResult.message)

UnblockReturn(contentResult, unblockResult) ==
  CASE unblockResult.tag = "success" -> FetchSuccess(unblockResult.html)
    [] unblockResult.tag = "raised"  -> FetchRaised(unblockResult.message)
    [] OTHER -> FetchFailure(unblockResult.errorCode,
                  contentResult.message \o <<"; ">> \o unblockResult.message)

(***************************************************************************)
(* Content extraction and the quality gate.                                *)
(*   page.main  length of extractMainContent($)                            *)
(*   page.rsc   length of extractRscContent($)                             *)
(*   page.junk  characters removeJunkPatterns takes out of the content     *)
(*   page.lowq  isLowQualityContent of the cleaned content                 *)
(***************************************************************************)
Undefined == {}

ExtractOk(result) == [ok |-> TRUE, result |-> result, error |-> <<>>]
ExtractThrows(error) ==
  [ok |-> FALSE,
   result |-> [title |-> "", content |-> [kind |-> "none", len |-> 0],
               summaryLen |-> 0, needsJsRendering |-> FALSE,
               error |-> Undefined, errorCode |-> Undefined],
   error |-> error]

\* mutant: the length floor is tested before the junk patterns are removed
extractAndClean_GateBeforeClean(url, html) ==
  LET needsRender == html.needsRender
      rscContent  == IF needsRender THEN html.rsc ELSE 0
      extractedContent == IF rscContent >= MIN_CONTENT_LENGTH
                          THEN rscContent ELSE html.main
      content == IF extractedContent > MAX_CONTENT_LENGTH
                 THEN MAX_CONTENT_LENGTH + 3 ELSE extractedContent
      title == IF html.title # "" THEN html.title ELSE "hostname"
      cleanedContent == content - Min(html.junk, content)
      summaryLength == Min(SUMMARY_MAX_LENGTH, cleanedContent)
      summary == summaryLength
                 + (IF cleanedContent > summaryLength THEN 3 ELSE 0)
  IN IF content < MIN_CONTENT_LENGTH
     THEN ExtractThrows(<<"Content too short", " after cleaning">>)
     ELSE IF html.lowq
     THEN ExtractThrows(<<"Content quality check failed">>)
     ELSE ExtractOk([title |-> title,
                     content |-> [kind |-> "extracted",
                                  len |-> cleanedContent],
                     summaryLen |-> summary,
                     needsJsRendering |-> needsRender,
                     error |-> Undefined, errorCode |-> Undefined])

extractAndClean(url, html) ==
  LET needsRender == html.needsRender
      rscContent  == IF needsRender THEN html.rsc ELSE 0
      extractedContent == IF rscContent >= MIN_CONTENT_LENGTH
                          THEN rscContent ELSE html.main
      content == IF extractedContent > MAX_CONTENT_LENGTH
                 THEN MAX_CONTENT_LENGTH + 3 ELSE extractedContent
      title == IF html.title # "" THEN html.title ELSE "hostname"
      cleanedContent == content - Min(html.junk, content)
      summaryLength == Min(SUMMARY_MAX_LENGTH, cleanedContent)
      summary == summaryLength
                 + (IF cleanedContent > summaryLength THEN 3 ELSE 0)
  IN IF cleanedContent < MIN_CONTENT_LENGTH
     THEN ExtractThrows(<<"Content too short", " after cleaning">>)
     ELSE IF html.lowq
     THEN ExtractThrows(<<"Content quality check failed">>)
     ELSE ExtractOk([title |-> title,
                     content |-> [kind |-> "extracted",
                                  len |-> cleanedContent],
                     summaryLen |-> summary,
                     needsJsRendering |-> needsRender,
                     error |-> Undefined, errorCode |-> Undefined])

tryExtractAndClean(url, html) == extractAndClean(url, html)

\* mutant: only client-side blocks fall back
shouldAttemptBrowserless_ClientOnly(errorCode) ==
  errorCode = "HTTP_CLIENT_ERROR"

\* mutant: every failure but a server error falls back
shouldAttemptBrowserless_NotServer(errorCode) ==
  errorCode # "HTTP_SERVER_ERROR"

shouldAttemptBrowserless(errorCode) ==
  \/ errorCode = "HTTP_CLIENT_ERROR"
  \/ errorCode = "TIMEOUT"
  \/ errorCode = "FETCH_FAILED"

\* mutant: only short content is retried
shouldRetryBrowserlessAfterExtractionFailure_ShortOnly(errorMessage) ==
  includes(errorMessage, "Content too short")

shouldRetryBrowserlessAfterExtractionFailure(errorMessage) ==
  \/ includes(errorMessage, "Content too short")
  \/ includes(errorMessage, "Content quality check failed")

\* mutant: the content-length class is tested first
classifyError_ShortFirst(message) ==
  IF includes(message, "Content too short") THEN "CONTENT_TOO_SHORT"
  ELSE IF includes(message, "HTTP 4") THEN "HTTP_CLIENT_ERROR"
  ELSE IF includes(message, "HTTP 5") THEN "HTTP_SERVER_ERROR"
  ELSE IF includes(message, "timeout") THEN "TIMEOUT"
  ELSE IF includes(message, "Not an HTML") THEN "NOT_HTML"
  ELSE "SCRAPE_FAILED"

classifyError(message) ==
  IF includes(message, "HTTP 4") THEN "HTTP_CLIENT_ERROR"
  ELSE IF includes(message, "HTTP 5") THEN "HTTP_SERVER_ERROR"
  ELSE IF includes(message, "timeout") THEN "TIMEOUT"
  ELSE IF includes(message, "Content too short") THEN "CONTENT_TOO_SHORT"
  ELSE IF includes(message, "Not an HTML") THEN "NOT_HTML"
  ELSE "SCRAPE_FAILED"

\* mutant: the failure result carries no errorCode
buildErrorResult_NoCode(url, errorMessage, errorCode) ==
  [title |-> "hostname",
   content |-> [kind |-> "placeholder", len |-> Len(errorMessage)],
   summaryLen |-> 0,
   needsJsRendering |-> FALSE,
   error |-> {errorMessage},
   errorCode |-> Undefined]

buildErrorResult(url, errorMessage, errorCode) ==
  [title |-> "hostname",
   content |-> [kind |-> "placeholder", len |-> Len(errorMessage)],
   summaryLen |-> 0,
   needsJsRendering |-> FALSE,
   error |-> {errorMessage},
   errorCode |-> {errorCode}]

(***************************************************************************)
(* The scrape cache: a JS Map, i.e. entries in insertion order.            *)
(***************************************************************************)
CacheKeys(c) == {c[i].key : i \in DOMAIN c}
CacheHas(c, url) == url \in CacheKeys(c)
CacheIndex(c, url) == CHOOSE i \in DOMAIN c : c[i].key = url
CacheGet(c, url) == c[CacheIndex(c, url)]

\* Map.delete
CacheDelete(c, url) == SelectSeq(c, LAMBDA e : e.key # url)

\* mutant: setting an existing key moves it to the end
CacheSet_Refresh(c, url, entry) ==
  Append(CacheDelete(c, url),
         [key |-> url, exp |-> entry.exp, val |-> entry.val])

\* Map.set: an existing key keeps its position, a new key goes last.
CacheSet(c, url, entry) ==
  LET e == [key |-> url, exp |-> entry.exp, val |-> entry.val]
  IN IF CacheHas(c, url)
     THEN [c EXCEPT ![CacheIndex(c, url)] = e]
     ELSE Append(c, e)

\* mutant: an entry stays until after the instant it expires
PurgeExpired_Late(c, t) == SelectSeq(c, LAMBDA e : ~(e.exp < t))

\* getCachedScrape: purge expired entries, then look the key up; a hit is
\* deleted and set again (moves to the end).
PurgeExpired(c, t) == SelectSeq(c, LAMBDA e : ~(e.exp <= t))

\* mutant: a hit renews the expiry of the entry (sliding expiration)
getCachedScrape_Renew(c, url, t) ==
  LET purged == PurgeExpired(c, t)
  IN IF CacheHas(purged, url) /\ CacheGet(purged, url).exp > t
     THEN LET cached == CacheGet(purged, url)
          IN [hit |-> TRUE, val |-> {cached.val},
              cache |-> CacheSet(CacheDelete(purged, url), url,
                                 [cached EXCEPT
                                    !.exp = t + CACHE_TTL_SCRAPE_MS])]
     ELSE [hit |-> FALSE, val |-> {}, cache |-> purged]

\* mutant: the freshness test of the lookup is reversed
getCachedScrape_Reversed(c, url, t) ==
  LET purged == PurgeExpired(c, t)
  IN IF CacheHas(purged, url) /\ CacheGet(purged, url).exp < t
     THEN LET cached == CacheGet(purged, url)
          IN [hit |-> TRUE, val |-> {cached.val},
              cache |-> CacheSet(CacheDelete(purged, url), url, cached)]
     ELSE [hit |-> FALSE, val |-> {}, cache |-> purged]

\* mutant: an entry is still served at the instant it expires
getCachedScrape_Inclusive(c, url, t) ==
  LET purged == SelectSeq(c, LAMBDA e : ~(e.exp < t))
  IN IF CacheHas(purged, url) /\ CacheGet(purged, url).exp >= t
     THEN LET cached == CacheGet(purged, url)
          IN [hit |-> TRUE, val |-> {cached.val},
              cache |-> CacheSet(CacheDelete(purged, url), url, cached)]
     ELSE [hit |-> FALSE, val |-> {}, cache |-> purged]

\* mutant: a hit leaves the entry where it is
getCachedScrape_NoTouch(c, url, t) ==
  LET purged == PurgeExpired(c, t)
  IN IF CacheHas(purged, url) /\ CacheGet(purged, url).exp > t
     THEN [hit |-> TRUE, val |-> {CacheGet(purged, url).val}, cache |-> purged]
     ELSE [hit |-> FALSE, val |-> {}, cache |-> purged]

getCachedScrape(c, url, t) ==
  LET purged == PurgeExpired(c, t)
  IN IF CacheHas(purged, url) /\ CacheGet(purged, url).exp > t
     THEN LET cached == CacheGet(purged, url)
          IN [hit |-> TRUE, val |-> {cached.val},
              cache |-> CacheSet(CacheDelete(purged, url), url, cached)]
     ELSE [hit |-> FALSE, val |-> {}, cache |-> purged]

\* mutant: the loop lets one entry too many stay
RECURSIVE EnforceCapacity_OffByOne(_)
EnforceCapacity_OffByOne(c) ==
  IF Len(c) > SCRAPE_CACHE_MAX_ENTRIES + 1
  THEN EnforceCapacity_OffByOne(Tail(c))
  ELSE c

\* the eviction loop of cacheScrapeResult
RECURSIVE EnforceCapacity(_)
EnforceCapacity(c) ==
  IF Len(c) > SCRAPE_CACHE_MAX_ENTRIES
  THEN EnforceCapacity(Tail(c))
  ELSE c

cacheScrapeResult(c, url, val, ttlMs, t) ==
  EnforceCapacity(CacheSet(c, url, [exp |-> t + ttlMs, val |-> val]))

(***************************************************************************)
(* URL validation (convex/lib/url.ts): a raw URL is rejected, or accepted  *)
(* and normalised (scheme and host lower-cased).                           *)
(***************************************************************************)
RawUrl(form, id) == [form |-> form, id |-> id]
RawUrls == {RawUrl(form, id) : form \in {"lower", "UPPER", "bad"},
                               id \in Urls}

validateScrapeUrl(raw) ==
  IF raw.form = "bad"
  THEN [ok |-> FALSE, url |-> 0, error |-> <<"Only http and https">>]
  ELSE [ok |-> TRUE, url |-> raw.id, error |-> <<>>]

\* getErrorMessage (convex/lib/errors.ts) of an Error is its message
getErrorMessage(message) == message

InvalidUrlResult(error) ==
  [title |-> "invalid_url",
   content |-> [kind |-> "placeholder", len |-> Len(error)],
   summaryLen |-> Len(error),
   needsJsRendering |-> FALSE,
   error |-> {<<"Invalid URL: ">> \o error},
   errorCode |-> {"INVALID_URL"}]

(***************************************************************************)
(* Inputs: pages and network behaviours.                                   *)
(***************************************************************************)
Page(title, main, rsc, junk, lowq, needsRender) ==
  [title |-> title, main |-> main, rsc |-> rsc, junk |-> junk,
   lowq |-> lowq, needsRender |-> needsRender]

GoodPage   == Page("Rendered", 224, 0, 0, FALSE, FALSE)
ShellPage  == Page("App Shell", 0, 0, 0, FALSE, FALSE)
NoisyPage  == Page("Noisy", 2850, 0, 0, TRUE, FALSE)
FloorPage  == Page("", MIN_CONTENT_LENGTH, 0, 0, FALSE, FALSE)
BelowPage  == Page("", MIN_CONTENT_LENGTH - 1, 0, 0, FALSE, FALSE)
JunkPage   == Page("Cookies", MIN_CONTENT_LENGTH + 20, 0, 30, FALSE, FALSE)
LongPage   == Page("Long", MAX_CONTENT_LENGTH + 50, 0, 0, FALSE, FALSE)
RscPage    == Page("RSC Page", 0, 180, 0, FALSE, TRUE)
SpaPage    == Page("Spa", 40, 0, 0, FALSE, TRUE)

CoarsePages == {GoodPage}
Pages == {GoodPage, ShellPage, NoisyPage, FloorPage, BelowPage, JunkPage,
          LongPage, RscPage, SpaPage}

RejectMessages == {<<"fetch failed">>, <<"aborted due to ", "timeout">>,
                   <<"abort">>}

NativeNets(pages) ==
  {NetReject(m) : m \in RejectMessages}
  \cup {NetResponse(st, TRUE, 0, TRUE, NoPage, FALSE) : st \in {304, 403, 500}}
  \cup {NetResponse(200, FALSE, 0, TRUE, NoPage, FALSE)}
  \cup {NetResponse(200, TRUE, 0, FALSE, NoPage, FALSE)}
  \cup {NetResponse(200, TRUE, 0, TRUE, pg, FALSE) : pg \in pages}

ContentNets(pages) ==
  {NetReject(m) : m \in RejectMessages}
  \cup {NetResponse(st, TRUE, 0, TRUE, NoPage, FALSE) :
          st \in {401, 403, 429, 503}}
  \cup {NetResponse(200, TRUE, st, TRUE, NoPage, FALSE) : st \in {403, 404, 502}}
  \cup {NetResponse(200, TRUE, 0, FALSE, NoPage, FALSE)}
  \cup {NetResponse(200, TRUE, 0, TRUE, NoPage, TRUE)}
  \cup {NetResponse(200, TRUE, 200, TRUE, pg, FALSE) : pg \in pages}

UnblockNets(pages) ==
  {NetReject(m) : m \in RejectMessages}
  \cup {NetResponse(st, TRUE, 0, TRUE, NoPage, FALSE) : st \in {403, 500}}
  \cup {NetResponse(200, TRUE, 0, FALSE, NoPage, FALSE)}
  \cup {NetResponse(200, TRUE, 0, TRUE, NoPage, TRUE)}
  \cup {NetResponse(200, TRUE, 0, TRUE, pg, FALSE) : pg \in pages}

\* the few behaviours used where many calls run together
CoarseNativeNets ==
  {NetResponse(403, TRUE, 0, TRUE, NoPage, FALSE)}
  \cup {NetResponse(200, TRUE, 0, TRUE, pg, FALSE) : pg \in CoarsePages}
CoarseContentNets ==
  {NetResponse(200, TRUE, 403, TRUE, NoPage, FALSE),
   NetResponse(429, TRUE, 0, TRUE, NoPage, FALSE),
   NetResponse(200, TRUE, 200, TRUE, GoodPage, FALSE)}
CoarseUnblockNets ==
  {NetResponse(500, TRUE, 0, TRUE, NoPage, FALSE)}

(***************************************************************************)
(* State.                                                                  *)
(***************************************************************************)
VARIABLES
  now,     \* Date.now()
  token,   \* process.env.BROWSERLESS_API_TOKEN is set
  cache,   \* globalThis.__scrapeCache
  calls,   \* the scrape calls: position, locals and what they did
  tool,    \* one invocation of the scrape_webpage tool
  pass,    \* one research pass of executeParallelResearch
  chain,   \* one run of the search provider chain
  hook,    \* one mounted useEnhancedFollowUpPrompt and its props
  workflow \* the workflowTokens table and one completeWorkflow call

vars == <<now, token, cache, calls, tool, pass, chain, hook, workflow>>

NoResult ==
  [title |-> "", content |-> [kind |-> "none", len |-> 0], summaryLen |-> 0,
   needsJsRendering |-> FALSE, error |-> Undefined, errorCode |-> Undefined]
NoFetch == [tag |-> "none", html |-> NoPage, errorCode |-> "",
            message |-> <<>>]
NoCall  == [tag |-> "none", html |-> NoPage, errorCode |-> "",
            message |-> <<>>, shouldRetry |-> FALSE,
            shouldTryUnblock |-> FALSE]

IdleCall ==
  [pc |-> "idle", url |-> 0, via |-> "", attempt |-> 0,
   nativeRes |-> NoFetch, nativeError |-> <<>>,
   contentNet |-> NoNet, contentRes |-> NoCall, backoffMs |-> 0,
   unblockRes |-> NoCall, blRes |-> NoFetch, blError |-> <<>>,
   nNative |-> 0, nBrowserless |-> 0, nContent |-> 0, nUnblock |-> 0,
   hit |-> FALSE, started |-> 0,
   outcome |-> "none", result |-> NoResult]

\* the scrape_webpage tool before and between invocations
NoResponse ==
  [title |-> "", content |-> [kind |-> "none", len |-> 0],
   contentLength |-> 0, error |-> Undefined, errorMessage |-> Undefined]

IdleTool ==
  [pc |-> "idle", url |-> [form |-> "", id |-> 0], elapsed |-> 0,
   fired |-> FALSE, timedOut |-> FALSE, returnedAt |-> 0,
   response |-> NoResponse]

\* createEmptyHarvestedData (convex/schemas/agents.ts)
\* a SerpEnrichment object: each field is absent ({}) or holds its data
NoFields ==
  [knowledgeGraph |-> {}, answerBox |-> {}, peopleAlsoAsk |-> {},
   relatedSearches |-> {}]

EmptyHarvested ==
  [searchResults |-> <<>>, scrapedContent |-> <<>>,
   failedScrapeUrls |-> {}, failedScrapeErrors |-> {},
   serpEnrichment |-> NoFields]

ZeroStats ==
  [searchResultCount |-> 0, scrapeSuccessCount |-> 0, scrapeFailCount |-> 0,
   queriesExecuted |-> 0]

IdlePass ==
  [pc |-> "idle", maxScrapeUrls |-> 0, searches |-> <<>>,
   targets |-> <<>>, scrapeOutcomes |-> <<>>, scrapes |-> <<>>,
   harvested |-> EmptyHarvested, stats |-> ZeroStats, events |-> <<>>]

\* the search provider chain before a search is asked for
IdleChain ==
  [pc |-> "idle", hasSerpKey |-> FALSE, called |-> <<>>, answers |-> <<>>,
   results |-> <<>>, searchMethod |-> "", hasRealResults |-> FALSE,
   allProvidersFailed |-> FALSE]

\* useEnhancedFollowUpPrompt as mounted (lines 113-130): its props, its
\* state and refs, and where its async handlers stand; {} stands for null
IdleHook ==
  [pc |-> "idle", currentChatId |-> "none", hasSummarize |-> FALSE,
   messages |-> <<>>, isGenerating |-> FALSE,
   showFollowUpPrompt |-> FALSE, pendingMessage |-> {},
   followUpMessage |-> {}, followUpSuggestions |-> <<>>,
   summaryError |-> {}, lastShownAtUserMsgCount |-> 0,
   priorChatSummary |-> {}, dispatched |-> FALSE,
   messageToSend |-> {}, nSummarize |-> 0, nNewChat |-> 0,
   inFlight |-> <<>>, nSent |-> 0, nWithSummary |-> 0,
   nChatChanges |-> 0]

\* the workflowTokens table before any token is created (a token id that
\* names no document is "missing"), no mutation called yet, and no
\* completeWorkflow call under way; {} stands for null and for no error
TokenIds == 1..NumTokens

IdleCompletion ==
  [pc |-> "idle", workflowTokenId |-> {}, mutationError |-> {},
   thrown |-> {}]

IdleWorkflow ==
  [tokens |-> [t \in TokenIds |-> "missing"],
   last |-> [op |-> "none", tokenId |-> 0, error |-> {}],
   completion |-> IdleCompletion]

WarmResult == extractAndClean(0, GoodPage).result
WarmCache ==
  [i \in 1..PreFill |->
     [key |-> NumUrls + i, exp |-> CACHE_TTL_SCRAPE_MS, val |-> WarmResult]]

Init ==
  /\ now = 0
  /\ token = TRUE
  /\ cache = <<>>
  /\ calls = [c \in CallIds |-> IdleCall]
  /\ tool = IdleTool
  /\ pass = IdlePass
  /\ chain = IdleChain
  /\ workflow = IdleWorkflow
  /\ hook = IdleHook

\* the process has already scraped PreFill other URLs successfully
InitWarm ==
  /\ now = 0
  /\ token = TRUE
  /\ cache = WarmCache
  /\ calls = [c \in CallIds |-> IdleCall]
  /\ tool = IdleTool
  /\ pass = IdlePass
  /\ chain = IdleChain
  /\ workflow = IdleWorkflow
  /\ hook = IdleHook

InitPipeline ==
  /\ now = 0
  /\ token \in BOOLEAN
  /\ cache = <<>>
  /\ calls = [c \in CallIds |-> IdleCall]
  /\ tool = IdleTool
  /\ pass = IdlePass
  /\ chain = IdleChain
  /\ workflow = IdleWorkflow
  /\ hook = IdleHook

(***************************************************************************)
(* scrapeWithCheerio: the body of the try block ends by yielding a result  *)
(* or by throwing; the catch block turns a throw into a failure result.    *)
(* Either way the result is cached and returned.                           *)
(***************************************************************************)
TryOk(result)     == [threw |-> FALSE, result |-> result, message |-> <<>>]
TryThrow(message) == [threw |-> TRUE, result |-> NoResult, message |-> message]

\* lines 215-220 and 221-232: cache the result and return it
Settle(call, try) ==
  IF ~try.threw
  THEN [call |-> [call EXCEPT !.pc = "done", !.outcome = "returned",
                              !.result = try.result],
        cache |-> cacheScrapeResult(cache, call.url, try.result,
                                    CACHE_TTL_SCRAPE_MS, now)]
  ELSE LET errorMessage == getErrorMessage(try.message)
           errorCode    == classifyError(errorMessage)
           val          == buildErrorResult(call.url, errorMessage, errorCode)
       IN [call |-> [call EXCEPT !.pc = "done", !.outcome = "returned",
                                 !.result = val],
           cache |-> cacheScrapeResult(cache, call.url, val,
                                       ERROR_CACHE_TTL_MS, now)]

\* fetchBrowserless is entered: without a token it returns at once,
\* otherwise the first /content request is in flight.
EnterBrowserless(call, via) ==
  [call EXCEPT !.via = via, !.nBrowserless = @ + 1,
               !.pc = IF token THEN "content" ELSE "returning",
               !.attempt = IF token THEN 1 ELSE 0,
               !.blRes = IF token THEN NoFetch ELSE NotConfigured]

\* mutant: rendered HTML that fails extraction is rendered a second time
AfterFallback_RendersAgain(call, browserlessResult) ==
  IF browserlessResult.tag = "raised"
  THEN [call |-> call, try |-> TryThrow(browserlessResult.message)]
  ELSE IF browserlessResult.tag = "success"
  THEN LET attempt == tryExtractAndClean(call.url, browserlessResult.html)
       IN IF attempt.ok
          THEN [call |-> call, try |-> TryOk(attempt.result)]
          ELSE [call |-> [call EXCEPT !.blError = attempt.error,
                                      !.nBrowserless = @ + 1],
                try |-> TryThrow(attempt.error)]
  ELSE [call |-> call,
        try |-> TryThrow(call.nativeRes.message
                         \o <<"; ", "Browserless fallback failed">>
                         \o browserlessResult.message)]

\* fetchWithFallback after `await fetchBrowserless(url)` (lines 257-271)
\* followed by lines 198-213 of scrapeWithCheerio
AfterFallback(call, browserlessResult) ==
  IF browserlessResult.tag = "raised"
  THEN [call |-> call, try |-> TryThrow(browserlessResult.message)]
  ELSE IF browserlessResult.tag = "success"
  THEN LET attempt == tryExtractAndClean(call.url, browserlessResult.html)
       IN IF attempt.ok
          THEN [call |-> call, try |-> TryOk(attempt.result)]
          ELSE [call |-> [call EXCEPT !.blError = attempt.error],
                try |-> TryThrow(attempt.error)]
  ELSE [call |-> call,
        try |-> TryThrow(call.nativeRes.message
                         \o <<"; ", "Browserless fallback failed">>
                         \o browserlessResult.message)]

\* retryExtractionWithBrowserless after `await fetchBrowserless(url)`
AfterRetry(call, browserlessResult) ==
  IF browserlessResult.tag = "raised"
  THEN [call |-> call, try |-> TryThrow(browserlessResult.message)]
  ELSE IF browserlessResult.tag = "failure"
  THEN [call |-> call,
        try |-> TryThrow(<<"Native extraction failed">> \o call.nativeError
                         \o <<"; ", "Browserless fetch failed">>
                         \o browserlessResult.message)]
  ELSE LET retryAttempt == tryExtractAndClean(call.url,
                                              browserlessResult.html)
       IN IF retryAttempt.ok
          THEN [call |-> call, try |-> TryOk(retryAttempt.result)]
          ELSE [call |-> [call EXCEPT !.blError = retryAttempt.error],
                try |-> TryThrow(<<"Native extraction failed">>
                                 \o call.nativeError
                                 \o <<"; ", "Browserless extraction failed">>
                                 \o retryAttempt.error)]

\* fetchBrowserless has returned (or raised): the awaiting code resumes
Resume(call, browserlessResult) ==
  LET withRes == [call EXCEPT !.blRes = browserlessResult]
      next == IF call.via = "fallback"
              THEN AfterFallback(withRes, browserlessResult)
              ELSE AfterRetry(withRes, browserlessResult)
  IN Settle(next.call, next.try)

\* fetchWithFallback after `await fetchNative(url)` (lines 240-275) followed
\* by lines 198-213 of scrapeWithCheerio.  Yields either a call that now
\* waits for fetchBrowserless, or the end of the try block.
AfterNative(call, nativeResult) ==
  LET c1 == [call EXCEPT !.nativeRes = nativeResult]
  IN IF nativeResult.tag = "raised"
     THEN [wait |-> FALSE, call |-> c1,
           try |-> TryThrow(nativeResult.message)]
     ELSE IF nativeResult.tag = "success"
     THEN LET attempt == tryExtractAndClean(call.url, nativeResult.html)
          IN IF attempt.ok
             THEN [wait |-> FALSE, call |-> c1, try |-> TryOk(attempt.result)]
             ELSE IF shouldRetryBrowserlessAfterExtractionFailure(
                        attempt.error)
             THEN [wait |-> TRUE,
                   call |-> EnterBrowserless(
                              [c1 EXCEPT !.nativeError = attempt.error],
                              "retry"),
                   try |-> TryThrow(<<>>)]
             ELSE [wait |-> FALSE,
                   call |-> [c1 EXCEPT !.nativeError = attempt.error],
                   try |-> TryThrow(attempt.error)]
     ELSE IF shouldAttemptBrowserless(nativeResult.errorCode)
     THEN [wait |-> TRUE, call |-> EnterBrowserless(c1, "fallback"),
           try |-> TryThrow(<<>>)]
     ELSE [wait |-> FALSE, call |-> c1,
           try |-> TryThrow(nativeResult.message)]

(***************************************************************************)
(* Actions.                                                                *)
(***************************************************************************)
\* mutant: the cache is purged before the URL is validated
BeginScrape_PurgeFirst(c, raw) ==
  LET validation == validateScrapeUrl(raw)
      fresh == [IdleCall EXCEPT !.started = now]
  IN IF ~validation.ok
     THEN /\ calls' = [calls EXCEPT ![c] =
                         [fresh EXCEPT !.pc = "done",
                                       !.outcome = "returned",
                                       !.result =
                                          InvalidUrlResult(validation.error)]]
          /\ cache' = PurgeExpired(cache, now)
     ELSE LET validatedUrl == validation.url
              look == getCachedScrape(cache, validatedUrl, now)
          IN /\ cache' = look.cache
             /\ calls' = [calls EXCEPT ![c] =
                  IF look.hit
                  THEN [fresh EXCEPT !.url = validatedUrl, !.pc = "done",
                                     !.hit = TRUE,
                                     !.outcome = "returned",
                                     !.result = CHOOSE v \in look.val : TRUE]
                  ELSE [fresh EXCEPT !.url = validatedUrl, !.pc = "native",
                                     !.nNative = 1]]

\* scrapeWithCheerio(url) up to its first await (lines 177-197)
BeginScrape(c, raw) ==
  LET validation == validateScrapeUrl(raw)
      fresh == [IdleCall EXCEPT !.started = now]
  IN IF ~validation.ok
     THEN /\ calls' = [calls EXCEPT ![c] =
                         [fresh EXCEPT !.pc = "done",
                                       !.outcome = "returned",
                                       !.result =
                                          InvalidUrlResult(validation.error)]]
          /\ UNCHANGED cache
     ELSE LET validatedUrl == validation.url
              look == getCachedScrape(cache, validatedUrl, now)
          IN /\ cache' = look.cache
             /\ calls' = [calls EXCEPT ![c] =
                  IF look.hit
                  THEN [fresh EXCEPT !.url = validatedUrl, !.pc = "done",
                                     !.hit = TRUE,
                                     !.outcome = "returned",
                                     !.result = CHOOSE v \in look.val : TRUE]
                  ELSE [fresh EXCEPT !.url = validatedUrl, !.pc = "native",
                                     !.nNative = 1]]

\* a caller (the research executor, a test) calls scrapeWithCheerio directly
ScrapeWithCheerioStep(c, raw) ==
  /\ calls[c].pc = "idle"
  /\ BeginScrape(c, raw)
  /\ UNCHANGED <<now, token>>

\* the scrapeUrl action (action.ts lines 53-59): validates, throws on an
\* invalid URL, otherwise hands the validated URL to scrapeWithCheerio
ScrapeUrlStep(c, raw) ==
  /\ calls[c].pc = "idle"
  /\ LET validation == validateScrapeUrl(raw)
     IN IF ~validation.ok
        THEN /\ calls' = [calls EXCEPT ![c] =
                  [IdleCall EXCEPT !.pc = "done", !.started = now,
                                   !.outcome = "threw"]]
             /\ UNCHANGED cache
        ELSE BeginScrape(c, RawUrl("lower", validation.url))
  /\ UNCHANGED <<now, token>>

\* fetchNative settles and the orchestrator runs on to its next await
NativeSettlesStep(c, net) ==
  /\ calls[c].pc = "native"
  /\ LET next == AfterNative(calls[c], fetchNative(net))
     IN IF next.wait
        THEN /\ calls' = [calls EXCEPT ![c] = next.call]
             /\ UNCHANGED cache
        ELSE LET end == Settle(next.call, next.try)
             IN /\ calls' = [calls EXCEPT ![c] = end.call]
                /\ cache' = end.cache
  /\ UNCHANGED <<now, token>>

\* fetchBrowserless returned without a request (no token)
BrowserlessReturnsStep(c) ==
  /\ calls[c].pc = "returning"
  /\ LET end == Resume(calls[c], calls[c].blRes)
     IN /\ calls' = [calls EXCEPT ![c] = end.call]
        /\ cache' = end.cache
  /\ UNCHANGED <<now, token>>

\* one /content request settles (loop body of fetchBrowserless, 259-298)
ContentSettlesStep(c, net) ==
  /\ calls[c].pc = "content"
  /\ LET result == callContentApi(net)
         call == [calls[c] EXCEPT !.nContent = @ + 1, !.contentNet = net,
                                  !.contentRes = result]
     IN IF result.tag # "failure"
        THEN LET end == Resume(call, BrowserlessReturn(result))
             IN /\ calls' = [calls EXCEPT ![c] = end.call]
                /\ cache' = end.cache
        ELSE IF result.shouldTryUnblock
        THEN /\ calls' = [calls EXCEPT ![c] =
                            [call EXCEPT !.pc = "unblock", !.nUnblock = @ + 1]]
             /\ UNCHANGED cache
        ELSE IF ~result.shouldRetry
                \/ call.attempt = MAX_BROWSERLESS_ATTEMPTS
        THEN LET end == Resume(call, BrowserlessReturn(result))
             IN /\ calls' = [calls EXCEPT ![c] = end.call]
                /\ cache' = end.cache
        ELSE /\ calls' = [calls EXCEPT ![c] =
                  [call EXCEPT !.pc = "sleep",
                               !.backoffMs =
                                  RETRY_BASE_DELAY_MS * 2 ^ (call.attempt - 1)]]
             /\ UNCHANGED cache
  /\ UNCHANGED <<now, token>>

\* the backoff sleep ends and the next /content request is sent
BackoffElapsesStep(c) ==
  /\ calls[c].pc = "sleep"
  /\ calls' = [calls EXCEPT ![c] =
                 [@ EXCEPT !.pc = "content", !.attempt = @ + 1]]
  /\ UNCHANGED <<now, token, cache>>

\* the /unblock request settles; its outcome ends fetchBrowserless
UnblockSettlesStep(c, net) ==
  /\ calls[c].pc = "unblock"
  /\ LET unblockResult == callUnblockApi(net)
         call == [calls[c] EXCEPT !.unblockRes = unblockResult]
         end == Resume(call, UnblockReturn(call.contentRes, unblockResult))
     IN /\ calls' = [calls EXCEPT ![c] = end.call]
        /\ cache' = end.cache
  /\ UNCHANGED <<now, token>>

\* the caller has taken the result; the slot is free for the next call
ReleaseStep(c) ==
  /\ calls[c].pc = "done"
  /\ calls' = [calls EXCEPT ![c] = IdleCall]
  /\ UNCHANGED <<now, token, cache>>

\* time passes
Tick ==
  /\ now + ERROR_CACHE_TTL_MS <= MaxTicks * ERROR_CACHE_TTL_MS
  /\ now' = now + ERROR_CACHE_TTL_MS
  /\ UNCHANGED <<token, cache, calls, tool, pass, chain, hook, workflow>>

(***************************************************************************)
(* The scrape calls on their own: the tool layer and the research pass     *)
(* stand still.                                                            *)
(***************************************************************************)
ScrapeWithCheerio(c, raw) ==
  ScrapeWithCheerioStep(c, raw) /\ UNCHANGED <<tool, pass, chain, hook, workflow>>

ScrapeUrl(c, raw) ==
  ScrapeUrlStep(c, raw) /\ UNCHANGED <<tool, pass, chain, hook, workflow>>

NativeSettles(c, net) ==
  NativeSettlesStep(c, net) /\ UNCHANGED <<tool, pass, chain, hook, workflow>>

BrowserlessReturns(c) ==
  BrowserlessReturnsStep(c) /\ UNCHANGED <<tool, pass, chain, hook, workflow>>

ContentSettles(c, net) ==
  ContentSettlesStep(c, net) /\ UNCHANGED <<tool, pass, chain, hook, workflow>>

BackoffElapses(c) ==
  BackoffElapsesStep(c) /\ UNCHANGED <<tool, pass, chain, hook, workflow>>

UnblockSettles(c, net) ==
  UnblockSettlesStep(c, net) /\ UNCHANGED <<tool, pass, chain, hook, workflow>>

Release(c) ==
  ReleaseStep(c) /\ UNCHANGED <<tool, pass, chain, hook, workflow>>

(***************************************************************************)
(* Specifications.                                                         *)
(*   Spec          several calls in flight, few network behaviours         *)
(*   SpecWarm      the same, starting from a full cache                    *)
(*   SpecPipeline  one call at a time, every network behaviour and page    *)
(***************************************************************************)
Next ==
  \/ \E c \in CallIds, raw \in RawUrls : ScrapeWithCheerio(c, raw)
  \/ \E c \in CallIds, raw \in RawUrls : ScrapeUrl(c, raw)
  \/ \E c \in CallIds, net \in CoarseNativeNets : NativeSettles(c, net)
  \/ \E c \in CallIds, net \in CoarseContentNets : ContentSettles(c, net)
  \/ \E c \in CallIds : BackoffElapses(c)
  \/ \E c \in CallIds, net \in CoarseUnblockNets : UnblockSettles(c, net)
  \/ \E c \in CallIds : Release(c)
  \/ Tick

Spec == Init /\ [][Next]_vars

SpecWarm == InitWarm /\ [][Next]_vars

(***************************************************************************)
(* A long run of new URLs through a full cache.  The two oldest entries    *)
(* of the warm cache are asked for again early in the run, by either       *)
(* caller; the new URLs, each one the cache has not seen, are all asked    *)
(* for by the last caller.                                                 *)
(***************************************************************************)
HotUrls == {NumUrls + 1, NumUrls + 2}
NewKeys(c) == {k \in CacheKeys(c) : k > NumUrls + PreFill}
LruUrls(c) ==
  LET stored == Cardinality(NewKeys(cache))
  IN (IF stored <= MaxEarly THEN HotUrls ELSE {})
     \cup (IF c = NumCalls /\ stored < SCRAPE_CACHE_MAX_ENTRIES
           THEN {NumUrls + PreFill + stored + 1} ELSE {})

NextLru ==
  \/ \E c \in CallIds : \E id \in LruUrls(c) :
        ScrapeWithCheerio(c, RawUrl("lower", id))
  \/ \E c \in CallIds :
        NativeSettles(c, NetResponse(200, TRUE, 0, TRUE, FloorPage, FALSE))
  \/ \E c \in CallIds : Release(c)

SpecLru == InitWarm /\ [][NextLru]_vars

PipelineUrls == {raw \in RawUrls : raw.id = 1}

NextPipeline ==
  \/ \E raw \in PipelineUrls : ScrapeWithCheerio(1, raw)
  \/ \E raw \in PipelineUrls : ScrapeUrl(1, raw)
  \/ \E net \in NativeNets(Pages) : NativeSettles(1, net)
  \/ BrowserlessReturns(1)
  \/ \E net \in ContentNets(Pages) : ContentSettles(1, net)
  \/ BackoffElapses(1)
  \/ \E net \in UnblockNets(Pages) : UnblockSettles(1, net)
  \/ Release(1)
  \/ Tick

SpecPipeline == InitPipeline /\ [][NextPipeline]_vars

(***************************************************************************)
(* The scrape_webpage tool (tool.ts).  execute() starts the scrapeUrl      *)
(* action and a timer of SCRAPE_TOOL_TIMEOUT_MS and returns on whichever   *)
(* settles first; the action is not cancelled and runs on.                 *)
(*   tool.elapsed  milliseconds since callStart at which the last stage    *)
(*                 of the scrape call ended                                *)
(*   tool.fired    the timer fired during the stage now in progress        *)
(***************************************************************************)
\* mutant: the failure fields are left out of the response
buildScrapeResponse_NoFailure(content, failure) ==
  [title |-> content.title, content |-> content.content,
   contentLength |-> content.contentLength,
   error |-> Undefined, errorMessage |-> Undefined]

buildScrapeResponse(content, failure) ==
  [title |-> content.title, content |-> content.content,
   contentLength |-> content.contentLength,
   error |-> {f.error : f \in failure},
   errorMessage |-> {f.errorMessage : f \in failure}]

\* execute, lines 153-196: the action resolved with a ScrapeResult
ToolOnResult(content) ==
  IF content.error # Undefined \/ content.errorCode # Undefined
  THEN LET errorMessage ==
             IF content.error # Undefined
             THEN CHOOSE m \in content.error : TRUE
             ELSE <<"Unknown scrape error">>
       IN buildScrapeResponse(
            [title |-> content.title, content |-> content.content,
             contentLength |-> 0],
            {[error |-> "Scrape failed", errorMessage |-> errorMessage]})
  ELSE buildScrapeResponse(
         [title |-> content.title, content |-> content.content,
          contentLength |-> content.content.len],
         {})

\* execute, lines 197-228: the action or the timer rejected
ToolOnThrow(message) ==
  buildScrapeResponse(
    [title |-> "hostname",
     content |-> [kind |-> "placeholder", len |-> 0],
     contentLength |-> 0],
    {[error |-> "Scrape failed", errorMessage |-> getErrorMessage(message)]})

ToolTimeoutMessage == <<"Scrape tool ", "timeout", " after 35000ms">>

IsTimeoutReject(net) ==
  /\ net.kind = "reject"
  /\ (includes(net.message, "timeout") \/ includes(net.message, "abort"))

\* how long a request can take: a timeout takes the whole timeout, any
\* other outcome arrives quickly or just before the timeout
Durations(net, timeoutMs) ==
  IF IsTimeoutReject(net) THEN {timeoutMs}
  ELSE {RETRY_BASE_DELAY_MS, timeoutMs - RETRY_BASE_DELAY_MS}

\* the longest the stage in progress can last
StageMax(call) ==
  CASE call.pc = "native"  -> NATIVE_TIMEOUT_MS
    [] call.pc = "content" -> BROWSERLESS_FETCH_TIMEOUT_MS
    [] call.pc = "sleep"   -> call.backoffMs
    [] call.pc = "unblock" -> BROWSERLESS_UNBLOCK_FETCH_TIMEOUT_MS
    [] OTHER               -> 0

\* a stage of length d ends before the timer while the race is open, and
\* not before it if the timer fired during the stage
Fits(d) ==
  /\ tool.pc # "idle"
  /\ IF tool.pc = "racing"
     THEN tool.elapsed + d < SCRAPE_TOOL_TIMEOUT_MS
     ELSE tool.fired => tool.elapsed + d >= SCRAPE_TOOL_TIMEOUT_MS

Advance(d) == [tool EXCEPT !.elapsed = @ + d, !.fired = FALSE]

ToolNets(nets) == nets \cup {NetReject(<<"aborted due to ", "timeout">>)}

\* execute() up to `await Promise.race` (lines 137-151, 72-88)
ToolExecute(raw) ==
  /\ tool.pc = "idle"
  /\ ScrapeUrlStep(1, raw)
  /\ tool' = [IdleTool EXCEPT !.pc = "racing", !.url = raw]
  /\ UNCHANGED <<pass, chain, hook, workflow>>

\* the scrapeUrl action settles first: lines 153-196, or the catch block
ActionSettles ==
  /\ tool.pc = "racing"
  /\ calls[1].pc = "done"
  /\ tool' = [tool EXCEPT
       !.pc = "returned",
       !.returnedAt = tool.elapsed,
       !.response =
          IF calls[1].outcome = "threw"
          THEN ToolOnThrow(validateScrapeUrl(tool.url).error)
          ELSE ToolOnResult(calls[1].result)]
  /\ UNCHANGED <<now, token, cache, calls, pass, chain, hook, workflow>>

\* the timer settles first (lines 78-82), the catch block builds the response
TimerFires ==
  /\ tool.pc = "racing"
  /\ calls[1].pc # "done"
  /\ tool.elapsed + StageMax(calls[1]) >= SCRAPE_TOOL_TIMEOUT_MS
  /\ tool' = [tool EXCEPT
       !.pc = "returned", !.timedOut = TRUE, !.fired = TRUE,
       !.returnedAt = SCRAPE_TOOL_TIMEOUT_MS,
       !.response = ToolOnThrow(ToolTimeoutMessage)]
  /\ UNCHANGED <<now, token, cache, calls, pass, chain, hook, workflow>>

\* the stages of the scrape call, with the time they take
ToolNativeSettles(net, d) ==
  /\ d \in Durations(net, NATIVE_TIMEOUT_MS)
  /\ Fits(d)
  /\ NativeSettlesStep(1, net)
  /\ tool' = Advance(d)
  /\ UNCHANGED <<pass, chain, hook, workflow>>

ToolBrowserlessReturns ==
  /\ Fits(0)
  /\ BrowserlessReturnsStep(1)
  /\ tool' = Advance(0)
  /\ UNCHANGED <<pass, chain, hook, workflow>>

ToolContentSettles(net, d) ==
  /\ d \in Durations(net, BROWSERLESS_FETCH_TIMEOUT_MS)
  /\ Fits(d)
  /\ ContentSettlesStep(1, net)
  /\ tool' = Advance(d)
  /\ UNCHANGED <<pass, chain, hook, workflow>>

ToolBackoffElapses ==
  /\ Fits(calls[1].backoffMs)
  /\ BackoffElapsesStep(1)
  /\ tool' = Advance(calls[1].backoffMs)
  /\ UNCHANGED <<pass, chain, hook, workflow>>

ToolUnblockSettles(net, d) ==
  /\ d \in Durations(net, BROWSERLESS_UNBLOCK_FETCH_TIMEOUT_MS)
  /\ Fits(d)
  /\ UnblockSettlesStep(1, net)
  /\ tool' = Advance(d)
  /\ UNCHANGED <<pass, chain, hook, workflow>>

\* the agent has the response and the action has ended: next invocation
ToolReset ==
  /\ tool.pc = "returned"
  /\ ReleaseStep(1)
  /\ tool' = IdleTool
  /\ UNCHANGED <<pass, chain, hook, workflow>>

\* time passes between invocations
ToolIdles ==
  /\ tool.pc = "idle"
  /\ Tick

ToolSettleDurations ==
  {RETRY_BASE_DELAY_MS,
   NATIVE_TIMEOUT_MS - RETRY_BASE_DELAY_MS, NATIVE_TIMEOUT_MS,
   BROWSERLESS_FETCH_TIMEOUT_MS - RETRY_BASE_DELAY_MS,
   BROWSERLESS_FETCH_TIMEOUT_MS}

InitTool ==
  /\ now = 0
  /\ token \in BOOLEAN
  /\ cache = <<>>
  /\ calls = [c \in CallIds |-> IdleCall]
  /\ tool = IdleTool
  /\ pass = IdlePass
  /\ chain = IdleChain
  /\ workflow = IdleWorkflow
  /\ hook = IdleHook

NextTool ==
  \/ \E raw \in PipelineUrls : ToolExecute(raw)
  \/ ActionSettles
  \/ TimerFires
  \/ \E net \in ToolNets(CoarseNativeNets), d \in ToolSettleDurations :
        ToolNativeSettles(net, d)
  \/ ToolBrowserlessReturns
  \/ \E net \in ToolNets(CoarseContentNets), d \in ToolSettleDurations :
        ToolContentSettles(net, d)
  \/ ToolBackoffElapses
  \/ \E net \in ToolNets(CoarseUnblockNets), d \in ToolSettleDurations :
        ToolUnblockSettles(net, d)
  \/ ToolReset
  \/ ToolIdles

SpecTool == InitTool /\ [][NextTool]_vars

\* every fetch carries its own timeout and timers fire, so a pending stage,
\* the timer and the continuation of execute() all run eventually
ToolFairness ==
  /\ WF_vars(ActionSettles)
  /\ WF_vars(TimerFires)
  /\ WF_vars(\E net \in ToolNets(CoarseNativeNets), d \in ToolSettleDurations :
               ToolNativeSettles(net, d))
  /\ WF_vars(ToolBrowserlessReturns)
  /\ WF_vars(\E net \in ToolNets(CoarseContentNets), d \in ToolSettleDurations :
               ToolContentSettles(net, d))
  /\ WF_vars(ToolBackoffElapses)
  /\ WF_vars(\E net \in ToolNets(CoarseUnblockNets), d \in ToolSettleDurations :
               ToolUnblockSettles(net, d))

SpecToolLive == SpecTool /\ ToolFairness

(***************************************************************************)
(* The research pass (parallel_research.ts, parallel_research_scrape.ts).  *)
(* A URL is a scheme and a page id; a relevance score of 0 stands for a    *)
(* missing (falsy) score.                                                  *)
(***************************************************************************)
SearchUrls ==
  {[scheme |-> "https", id |-> 1], [scheme |-> "https", id |-> 2],
   [scheme |-> "ftp", id |-> 3], [scheme |-> "httpx", id |-> 3]}

SearchScores == {0, 2 * DefaultRelevance - 1}

SearchResults ==
  {[url |-> u, relevanceScore |-> sc] : u \in SearchUrls, sc \in SearchScores}

RECURSIVE SeqsUpTo(_, _)
SeqsUpTo(S, n) ==
  IF n = 0 THEN {<<>>}
  ELSE LET shorter == SeqsUpTo(S, n - 1)
       IN shorter \cup {Append(q, x) : q \in {r \in shorter : Len(r) = n - 1},
                                       x \in S}

\* what one searchWeb action can do: throw, answer without a results
\* field, or answer with a list of results
\* (the enrichment of an answer is absent, {}, or one SerpEnrichment object)
SearchThrew ==
  [state |-> "failed", hasResults |-> FALSE, results |-> <<>>,
   enrichment |-> {}]
SearchOutcomes ==
  {SearchThrew,
   [state |-> "ok", hasResults |-> FALSE, results |-> <<>>,
    enrichment |-> {}]}
  \cup {[state |-> "ok", hasResults |-> TRUE, results |-> rs,
         enrichment |-> {}] :
          rs \in SeqsUpTo(SearchResults, MaxResults)}
SearchPending ==
  [state |-> "pending", hasResults |-> FALSE, results |-> <<>>,
   enrichment |-> {}]

\* answers that carry SERP enrichment: the data of a field is named by the
\* answer it came with; an enrichment object may have no field at all
EnrichData == 1..MaxQueries
Enrichments ==
  {NoFields}
  \cup {[NoFields EXCEPT !.knowledgeGraph = {d}] : d \in EnrichData}
  \cup {[NoFields EXCEPT !.answerBox = {d}] : d \in EnrichData}
  \cup {[NoFields EXCEPT !.knowledgeGraph = {d}, !.relatedSearches = {d},
                         !.peopleAlsoAsk = {d}] : d \in EnrichData}
EnrichedResults ==
  {<<>>,
   <<[url |-> [scheme |-> "https", id |-> 1], relevanceScore |-> 0]>>}
EnrichedOutcomes ==
  {SearchThrew}
  \cup {[state |-> "ok", hasResults |-> TRUE, results |-> rs,
         enrichment |-> en] :
          rs \in EnrichedResults,
          en \in {{}} \cup {{e} : e \in Enrichments}}

\* what one scrapeUrl action can do: throw, or return a ScrapeResult
\* (the placeholder content of a failure embeds the URL, so it is as long
\* as the URL makes it)
ScrapeThrew == [threw |-> TRUE, content |-> NoResult]
ScrapeNotSettled == [threw |-> FALSE, content |-> NoResult]
ScrapeOutcomes ==
  {ScrapeThrew}
  \cup {[threw |-> FALSE, content |-> extractAndClean(0, pg).result] :
          pg \in {GoodPage, FloorPage}}
  \cup {[threw |-> FALSE,
         content |-> [buildErrorResult(0, m, classifyError(m))
                        EXCEPT !.content.len = len]] :
          m \in {<<"HTTP 4", "xx">>},
          len \in {CONTENT_LIMITS_MIN_CONTENT_LENGTH - 1,
                   CONTENT_LIMITS_MIN_CONTENT_LENGTH + 1}}

\* the promise of one scrape: pending, null, or a ScrapedContent
ScrapePending == [state |-> "pending", url |-> [scheme |-> "", id |-> 0],
                  title |-> "", contentLength |-> 0, relevanceScore |-> 0]
ScrapeNull    == [state |-> "null", url |-> [scheme |-> "", id |-> 0],
                  title |-> "", contentLength |-> 0, relevanceScore |-> 0]

\* the text a URL begins with, character by character up to the colon
UrlPrefix(url) ==
  CASE url.scheme = "http"  -> <<"h", "t", "t", "p", ":">>
    [] url.scheme = "https" -> <<"h", "t", "t", "p", "s", ":">>
    [] url.scheme = "httpx" -> <<"h", "t", "t", "p", "x", ":">>
    [] url.scheme = "ftp"   -> <<"f", "t", "p", ":">>
    [] OTHER                -> <<>>

\* r.url?.startsWith("http"): the text begins with the four characters
startsWithHttp(url) ==
  LET text == UrlPrefix(url)
      prefix == <<"h", "t", "t", "p">>
  IN Len(text) >= Len(prefix) /\ SubSeq(text, 1, Len(prefix)) = prefix

\* mutant: no deduplication, every result is kept
MapValuesByUrl_KeepAll(results) == results

\* mutant: one entry per URL, placed where the URL occurs last
MapValuesByUrl_LastPosition(results) ==
  LET n == Len(results)
      final(i) == \A j \in (i + 1)..n : results[j].url # results[i].url
      RECURSIVE walk(_)
      walk(i) == IF i > n THEN <<>>
                 ELSE IF final(i) THEN <<results[i]>> \o walk(i + 1)
                 ELSE walk(i + 1)
  IN walk(1)

\* new Map(searchResults.map(r => [r.url, r])).values(): one entry per URL,
\* in the order the URLs first occur, holding the last result of that URL
MapValuesByUrl(results) ==
  LET n == Len(results)
      first(i) == \A j \in 1..(i - 1) : results[j].url # results[i].url
      last(i) == CHOOSE j \in 1..n :
                   /\ results[j].url = results[i].url
                   /\ \A k \in (j + 1)..n : results[k].url # results[i].url
      RECURSIVE walk(_)
      walk(i) == IF i > n THEN <<>>
                 ELSE IF first(i) THEN <<results[last(i)]>> \o walk(i + 1)
                 ELSE walk(i + 1)
  IN walk(1)

\* Array.prototype.sort with (b.relevanceScore || 0) - (a.relevanceScore || 0):
\* descending and stable
SortByRelevance(items) ==
  LET n == Len(items)
      rank(k) == Cardinality({j \in 1..n :
                    \/ items[j].relevanceScore > items[k].relevanceScore
                    \/ /\ items[j].relevanceScore = items[k].relevanceScore
                       /\ j < k}) + 1
  IN [p \in 1..n |-> items[CHOOSE k \in 1..n : rank(k) = p]]

Slice(items, count) == SubSeq(items, 1, Min(count, Len(items)))

selectScrapeTargets(searchResults, maxUrls) ==
  Slice(SortByRelevance(SelectSeq(MapValuesByUrl(searchResults),
                                  LAMBDA r : startsWithHttp(r.url))),
        maxUrls)

\* lines 187-198: harvest the settled searches in planned-query order
RECURSIVE HarvestSearches(_)
HarvestSearches(searches) ==
  IF searches = <<>> THEN <<>>
  ELSE LET head == Head(searches)
           kept == IF head.state = "ok" /\ head.hasResults
                   THEN [i \in DOMAIN head.results |->
                           [url |-> head.results[i].url,
                            relevanceScore |->
                              IF head.results[i].relevanceScore = 0
                              THEN DefaultRelevance
                              ELSE head.results[i].relevanceScore]]
                   ELSE <<>>
       IN kept \o HarvestSearches(Tail(searches))

\* mutant: every answer's enrichment is merged into the harvest
RECURSIVE HarvestEnrichment_Merge(_, _)
HarvestEnrichment_Merge(serpEnrichment, searches) ==
  IF searches = <<>> THEN serpEnrichment
  ELSE LET head == Head(searches)
           merged ==
             IF head.state = "ok" /\ head.hasResults /\ head.enrichment # {}
             THEN LET enrich == CHOOSE e \in head.enrichment : TRUE
                  IN [f \in DOMAIN NoFields |->
                        IF enrich[f] # {} THEN enrich[f]
                        ELSE serpEnrichment[f]]
             ELSE serpEnrichment
       IN HarvestEnrichment_Merge(merged, Tail(searches))

\* lines 187-188 and 200-218: in planned-query order, the first answer that
\* has results and an enrichment object while serpEnrichment has no key
\* yet gives each of its truthy fields
RECURSIVE HarvestEnrichment(_, _)
HarvestEnrichment(serpEnrichment, searches) ==
  IF searches = <<>> THEN serpEnrichment
  ELSE LET head == Head(searches)
           merged ==
             IF /\ head.state = "ok" /\ head.hasResults
                /\ head.enrichment # {}
                /\ serpEnrichment = NoFields
             THEN LET enrich == CHOOSE e \in head.enrichment : TRUE
                  IN [f \in DOMAIN NoFields |->
                        IF enrich[f] # {} THEN enrich[f]
                        ELSE serpEnrichment[f]]
             ELSE serpEnrichment
       IN HarvestEnrichment(merged, Tail(searches))

\* the body of one scrape promise (parallel_research_scrape.ts lines 76-129)
\* mutant: an error result is accepted when its content is long enough
ScrapePromise_IgnoresError(urlInfo, outcome) ==
  IF outcome.threw THEN ScrapeNull
  ELSE IF outcome.content.content.len < CONTENT_LIMITS_MIN_CONTENT_LENGTH
       THEN ScrapeNull
  ELSE [state |-> "scraped", url |-> urlInfo.url,
        title |-> outcome.content.title,
        contentLength |-> outcome.content.content.len,
        relevanceScore |-> IF urlInfo.relevanceScore = 0
                           THEN RELEVANCE_SCORES_SCRAPED_PAGE
                           ELSE urlInfo.relevanceScore]

ScrapePromise(urlInfo, outcome) ==
  IF outcome.threw THEN ScrapeNull
  ELSE IF \/ outcome.content.error # Undefined
          \/ outcome.content.content.len < CONTENT_LIMITS_MIN_CONTENT_LENGTH
       THEN ScrapeNull
  ELSE [state |-> "scraped", url |-> urlInfo.url,
        title |-> outcome.content.title,
        contentLength |-> outcome.content.content.len,
        relevanceScore |-> IF urlInfo.relevanceScore = 0
                           THEN RELEVANCE_SCORES_SCRAPED_PAGE
                           ELSE urlInfo.relevanceScore]

AllSettled(promises) == \A i \in DOMAIN promises : promises[i].state # "pending"

\* executeScrapePhase after Promise.all (lines 131-149) and
\* executeParallelResearch lines 248-268
EndScrapePhase(p, scrapes) ==
  LET successfulScrapes == SelectSeq(scrapes, LAMBDA r : r.state # "null")
      scrapeSuccessCount == Len(successfulScrapes)
      scrapeFailCount == Len(p.targets) - Len(successfulScrapes)
  IN [p EXCEPT
        !.pc = "done",
        !.scrapes = scrapes,
        !.harvested.scrapedContent = @ \o successfulScrapes,
        !.stats.scrapeSuccessCount = scrapeSuccessCount,
        !.stats.scrapeFailCount = scrapeFailCount,
        !.events = Append(@, [type |-> "scrape_complete", urls |-> <<>>])]

\* executeParallelResearch from line 186 to the next await: harvest the
\* searches, then start Phase 2 (lines 234-246 and
\* parallel_research_scrape.ts lines 62-76)
EndSearchPhase(p, searches) ==
  LET searchResults == HarvestSearches(searches)
      p1 == [p EXCEPT
               !.searches = searches,
               !.harvested.searchResults = searchResults,
               !.harvested.serpEnrichment =
                  HarvestEnrichment(p.harvested.serpEnrichment, searches),
               !.stats.searchResultCount = Len(searchResults),
               !.events = Append(@, [type |-> "search_complete",
                                     urls |-> <<>>])]
      uniqueUrls == selectScrapeTargets(searchResults, p.maxScrapeUrls)
      announced == [i \in DOMAIN Slice(searchResults, p.maxScrapeUrls) |->
                      searchResults[i].url]
      p2 == [p1 EXCEPT
               !.events = Append(@, [type |-> "progress_scraping",
                                     urls |-> announced]),
               !.targets = uniqueUrls]
  IN IF searchResults = <<>> THEN [p1 EXCEPT !.pc = "done"]
     ELSE IF uniqueUrls = <<>> THEN EndScrapePhase(p2, <<>>)
     ELSE [p2 EXCEPT !.pc = "scraping",
                     !.scrapeOutcomes =
                        [i \in DOMAIN uniqueUrls |-> ScrapeNotSettled],
                     !.scrapes = [i \in DOMAIN uniqueUrls |-> ScrapePending]]

\* executeParallelResearch is called and runs to `await Promise.all`
StartResearch(n, maxScrapeUrls) ==
  /\ pass.pc = "idle"
  /\ pass' =
       IF n > 0
       THEN [IdlePass EXCEPT
               !.pc = "searching",
               !.maxScrapeUrls = maxScrapeUrls,
               !.stats.queriesExecuted = n,
               !.searches = [i \in 1..n |-> SearchPending],
               !.events = <<[type |-> "progress_searching", urls |-> <<>>]>>]
       ELSE [IdlePass EXCEPT !.pc = "done",
                             !.maxScrapeUrls = maxScrapeUrls]
  /\ UNCHANGED <<now, token, cache, calls, tool, chain, hook, workflow>>

\* mutant: the pass goes on as soon as one search has settled
SearchSettles_FirstSettled(i, outcome) ==
  /\ pass.pc = "searching"
  /\ i \in DOMAIN pass.searches
  /\ pass.searches[i].state = "pending"
  /\ pass' = EndSearchPhase(pass, [pass.searches EXCEPT ![i] = outcome])
  /\ UNCHANGED <<now, token, cache, calls, tool, chain, hook, workflow>>

\* one searchWeb action settles; the last one to settle lets the pass go on
SearchSettles(i, outcome) ==
  /\ pass.pc = "searching"
  /\ i \in DOMAIN pass.searches
  /\ pass.searches[i].state = "pending"
  /\ LET searches == [pass.searches EXCEPT ![i] = outcome]
     IN pass' = IF AllSettled(searches)
                THEN EndSearchPhase(pass, searches)
                ELSE [pass EXCEPT !.searches = searches]
  /\ UNCHANGED <<now, token, cache, calls, tool, chain, hook, workflow>>

\* one scrapeUrl action settles; the last one to settle ends the pass
ScrapeSettles(i, outcome) ==
  /\ pass.pc = "scraping"
  /\ i \in DOMAIN pass.scrapes
  /\ pass.scrapes[i].state = "pending"
  /\ LET scrapes == [pass.scrapes EXCEPT
                       ![i] = ScrapePromise(pass.targets[i], outcome)]
         p == [pass EXCEPT !.scrapeOutcomes[i] = outcome]
     IN pass' = IF AllSettled(scrapes)
                THEN EndScrapePhase(p, scrapes)
                ELSE [p EXCEPT !.scrapes = scrapes]
  /\ UNCHANGED <<now, token, cache, calls, tool, chain, hook, workflow>>

\* the caller has the result; the harvested data is discarded
ResearchReturns ==
  /\ pass.pc = "done"
  /\ pass' = IdlePass
  /\ UNCHANGED <<now, token, cache, calls, tool, chain, hook, workflow>>

InitResearch ==
  /\ now = 0
  /\ token = TRUE
  /\ cache = <<>>
  /\ calls = [c \in CallIds |-> IdleCall]
  /\ tool = IdleTool
  /\ pass = IdlePass
  /\ chain = IdleChain
  /\ workflow = IdleWorkflow
  /\ hook = IdleHook

NextResearch ==
  \/ \E n \in 0..MaxQueries, maxScrapeUrls \in 1..MaxScrape :
        StartResearch(n, maxScrapeUrls)
  \/ \E i \in 1..MaxQueries, outcome \in SearchOutcomes :
        SearchSettles(i, outcome)
  \/ \E i \in 1..MaxScrape, outcome \in ScrapeOutcomes :
        ScrapeSettles(i, outcome)
  \/ ResearchReturns

SpecResearch == InitResearch /\ [][NextResearch]_vars

\* the same pass when the search answers carry SERP enrichment
NextHarvest ==
  \/ \E n \in 0..MaxQueries, maxScrapeUrls \in 1..MaxScrape :
        StartResearch(n, maxScrapeUrls)
  \/ \E i \in 1..MaxQueries, outcome \in EnrichedOutcomes :
        SearchSettles(i, outcome)
  \/ \E i \in 1..MaxScrape, outcome \in ScrapeOutcomes :
        ScrapeSettles(i, outcome)
  \/ ResearchReturns

SpecHarvest == InitResearch /\ [][NextHarvest]_vars

(***************************************************************************)
(* selectScrapeTargets on its own: any list of raw search results (scores  *)
(* may be missing) and any cap.                                            *)
(***************************************************************************)
InitSelect ==
  /\ now = 0
  /\ token = TRUE
  /\ cache = <<>>
  /\ calls = [c \in CallIds |-> IdleCall]
  /\ tool = IdleTool
  /\ chain = IdleChain
  /\ workflow = IdleWorkflow
  /\ hook = IdleHook
  /\ \E searchResults \in SeqsUpTo(SearchResults, MaxList),
        maxUrls \in 0..MaxScrape :
        pass = [IdlePass EXCEPT !.pc = "selecting",
                                !.maxScrapeUrls = maxUrls,
                                !.harvested.searchResults = searchResults]

SelectTargets ==
  /\ pass.pc = "selecting"
  /\ pass' = [pass EXCEPT
                !.pc = "selected",
                !.targets = selectScrapeTargets(pass.harvested.searchResults,
                                                pass.maxScrapeUrls)]
  /\ UNCHANGED <<now, token, cache, calls, tool, chain, hook, workflow>>

NextSelect == SelectTargets

SpecSelect == InitSelect /\ [][NextSelect]_vars

(***************************************************************************)
(* The search provider chain behind searchWeb (convex/tools/search): the   *)
(* providers are tried in priority order, the first non-empty result set   *)
(* is the answer, and a synthetic link result stands in when none has any. *)
(***************************************************************************)
ChainProviders(hasSerpKey) ==
  IF hasSerpKey THEN <<"serpapi", "openrouter", "duckduckgo">>
  ELSE <<"openrouter", "duckduckgo">>

\* what one provider can do: throw, or answer with a list of results
ProviderFailed == [state |-> "failed", results |-> <<>>]
ProviderOutcomes ==
  {ProviderFailed}
  \cup {[state |-> "ok", results |-> rs] :
          rs \in SeqsUpTo(SearchResults, MaxResults)}

\* the final synthetic fallback link result
SyntheticResult ==
  [url |-> [scheme |-> "https", id |-> 0], relevanceScore |-> 0]

\* mutant: when no provider has results the chain answers with none
runSearchWeb_NoFallback(c, outcome) ==
  LET providers == ChainProviders(c.hasSerpKey)
      answers == Append(c.answers, outcome)
      tried == Len(c.called)
  IN IF outcome.state = "ok" /\ outcome.results # <<>>
     THEN [c EXCEPT !.pc = "done", !.answers = answers,
                    !.results = outcome.results,
                    !.searchMethod = providers[tried],
                    !.hasRealResults = TRUE]
     ELSE IF tried < Len(providers)
     THEN [c EXCEPT !.answers = answers,
                    !.called = Append(@, providers[tried + 1])]
     ELSE [c EXCEPT !.pc = "done", !.answers = answers,
                    !.results = <<>>,
                    !.searchMethod = "fallback",
                    !.allProvidersFailed = TRUE]

\* runSearchWeb from the answer of the provider it is waiting for to its
\* next call or its return
runSearchWeb(c, outcome) ==
  LET providers == ChainProviders(c.hasSerpKey)
      answers == Append(c.answers, outcome)
      tried == Len(c.called)
  IN IF outcome.state = "ok" /\ outcome.results # <<>>
     THEN [c EXCEPT !.pc = "done", !.answers = answers,
                    !.results = outcome.results,
                    !.searchMethod = providers[tried],
                    !.hasRealResults = TRUE]
     ELSE IF tried < Len(providers)
     THEN [c EXCEPT !.answers = answers,
                    !.called = Append(@, providers[tried + 1])]
     ELSE [c EXCEPT !.pc = "done", !.answers = answers,
                    !.results = <<SyntheticResult>>,
                    !.searchMethod = "fallback",
                    !.allProvidersFailed = TRUE]

\* searchWeb is called and asks the first provider
StartSearch(hasSerpKey) ==
  /\ chain.pc = "idle"
  /\ chain' = [IdleChain EXCEPT
                 !.pc = "waiting",
                 !.hasSerpKey = hasSerpKey,
                 !.called = <<ChainProviders(hasSerpKey)[1]>>]
  /\ UNCHANGED <<now, token, cache, calls, tool, pass, hook, workflow>>

\* the provider asked last answers or throws
ProviderSettles(outcome) ==
  /\ chain.pc = "waiting"
  /\ chain' = runSearchWeb(chain, outcome)
  /\ UNCHANGED <<now, token, cache, calls, tool, pass, hook, workflow>>

\* the caller has the response
SearchReturns ==
  /\ chain.pc = "done"
  /\ chain' = IdleChain
  /\ UNCHANGED <<now, token, cache, calls, tool, pass, hook, workflow>>

NextSearch ==
  \/ \E hasSerpKey \in BOOLEAN : StartSearch(hasSerpKey)
  \/ \E outcome \in ProviderOutcomes : ProviderSettles(outcome)
  \/ SearchReturns

SpecSearch == InitResearch /\ [][NextSearch]_vars

(***************************************************************************)
(* The follow-up prompt hook (useEnhancedFollowUpPrompt.ts).  A message is *)
(* a role and a content; a content is a sequence of words.  The hook is    *)
(* re-rendered after every event, and its effects run with the render.     *)
(***************************************************************************)
UserContents == {<<"saturn">>, <<"pasta">>}
ChatMessages ==
  {[role |-> "user", content |-> c] : c \in UserContents}
  \cup {[role |-> "assistant", content |-> <<"answer">>]}

\* lib/utils/topicDetection: the two user messages are on different topics
isTopicChange(current, previous) == current # previous

\* lines 81-101
generateFollowUpSuggestions(content) ==
  LET forCode == IF includes(content, "code")
                 THEN <<"explain this code", "test this implementation">>
                 ELSE <<>>
      forError == IF includes(content, "error")
                  THEN <<"what causes this error", "debug this issue">>
                  ELSE <<>>
      found == forCode \o forError
      suggestions == IF found = <<>>
                     THEN <<"tell me more", "what are the alternatives">>
                     ELSE found
  IN SubSeq(suggestions, 1, Min(3, Len(suggestions)))

NoFollowUp ==
  [shouldShow |-> FALSE, suggestions |-> <<>>, followUpMessage |-> {}]

\* lines 36-79
checkFollowUpConditions(messages, isGenerating) ==
  LET userMessages == SelectSeq(messages, LAMBDA m : m.role = "user")
      assistantMessages ==
        SelectSeq(messages, LAMBDA m : m.role = "assistant")
  IN IF Len(userMessages) < MinUserMessages \/ assistantMessages = <<>>
     THEN NoFollowUp
     ELSE LET lastMessage == messages[Len(messages)]
              lastUserMessage == userMessages[Len(userMessages)]
              previousUserMessage == userMessages[Len(userMessages) - 1]
          IN IF \/ lastMessage.role # "assistant"
                \/ lastMessage.content = <<>>
                \/ lastUserMessage.content = <<>>
                \/ previousUserMessage.content = <<>>
             THEN NoFollowUp
             ELSE IF isTopicChange(lastUserMessage.content,
                                   previousUserMessage.content)
             THEN LET suggestions ==
                        generateFollowUpSuggestions(lastMessage.content)
                  IN [shouldShow |-> suggestions # <<>> /\ ~isGenerating,
                      suggestions |-> suggestions,
                      followUpMessage |-> {lastUserMessage.content}]
             ELSE NoFollowUp

\* lines 133-146
evaluateFollowUp(h) ==
  LET userMsgCount ==
        Len(SelectSeq(h.messages, LAMBDA m : m.role = "user"))
      result == checkFollowUpConditions(h.messages, h.isGenerating)
      cooledDown == userMsgCount - h.lastShownAtUserMsgCount
                      >= FOLLOW_UP_COOLDOWN_MESSAGES
  IN [shouldShow |-> result.shouldShow /\ cooledDown,
      suggestions |-> result.suggestions,
      followUpMessage |-> result.followUpMessage,
      userMsgCount |-> userMsgCount]

\* the effect of lines 149-166, run when the messages or isGenerating change
FollowUpEffect(h) ==
  LET e == evaluateFollowUp(h)
  IN IF e.shouldShow
     THEN [h EXCEPT !.lastShownAtUserMsgCount = e.userMsgCount,
                    !.followUpSuggestions = e.suggestions,
                    !.followUpMessage = e.followUpMessage,
                    !.showFollowUpPrompt = TRUE]
     ELSE [h EXCEPT !.showFollowUpPrompt = FALSE,
                    !.followUpMessage = {}]

\* lines 168-174
resetFollowUp(h) ==
  [h EXCEPT !.showFollowUpPrompt = FALSE,
            !.followUpSuggestions = <<>>,
            !.pendingMessage = {},
            !.followUpMessage = {},
            !.summaryError = {}]

\* the cleanup of the effect run before (lines 276-278): the send that run
\* started, if any, is stale from now on.  A send in flight is the message
\* and summary it carries, the `stale` flag of its closure, and whether the
\* run that started it is still the latest run of the effect.
Cleanup(inFlight) ==
  [i \in DOMAIN inFlight |->
     IF inFlight[i].armed
     THEN [inFlight[i] EXCEPT !.stale = TRUE, !.armed = FALSE]
     ELSE inFlight[i]]

\* the sequence without its i-th element
RemoveAt(items, i) ==
  SubSeq(items, 1, i - 1) \o SubSeq(items, i + 1, Len(items))

\* the effect of lines 242-279, run when pendingMessage or currentChatId
\* differ from the render before (sendRef.current is set)
PendingEffect(before, h) ==
  IF /\ before.pendingMessage = h.pendingMessage
     /\ before.currentChatId = h.currentChatId
  THEN h
  ELSE LET h1 == [h EXCEPT !.inFlight = Cleanup(@)]
       IN IF h1.pendingMessage = {} THEN [h1 EXCEPT !.dispatched = FALSE]
          ELSE IF h1.currentChatId = "none" \/ h1.dispatched THEN h1
          ELSE [h1 EXCEPT !.dispatched = TRUE,
                          !.priorChatSummary = {},
                          !.inFlight =
                             Append(@, [message |-> h1.pendingMessage,
                                        summary |-> h1.priorChatSummary,
                                        stale |-> FALSE,
                                        armed |-> TRUE]),
                          !.nSent = @ + 1,
                          !.nWithSummary =
                             IF h1.priorChatSummary # {} THEN @ + 1 ELSE @]

\* lines 228-232: queue the message and ask for the new chat
QueueAndNavigate(h) ==
  [h EXCEPT !.pendingMessage = IF h.messageToSend # {}
                               THEN h.messageToSend ELSE @,
            !.nSent = IF h.messageToSend # {} THEN 0 ELSE @,
            !.nWithSummary = IF h.messageToSend # {} THEN 0 ELSE @,
            !.nNewChat = @ + 1,
            !.pc = "newChat"]

\* chatState.messages gets one more message
MessageArrives(m) ==
  /\ Len(hook.messages) < MaxMessages
  /\ hook' = FollowUpEffect([hook EXCEPT !.messages = Append(@, m)])
  /\ UNCHANGED <<now, token, cache, calls, tool, pass, chain, workflow>>

\* chatState.isGenerating flips
GeneratingChanges ==
  /\ hook' = FollowUpEffect([hook EXCEPT !.isGenerating = ~@])
  /\ UNCHANGED <<now, token, cache, calls, tool, pass, chain, workflow>>

\* lines 176-188
MaybeShowFollowUpPrompt ==
  /\ LET e == evaluateFollowUp(hook)
     IN /\ e.shouldShow
        /\ hook' = [hook EXCEPT
                      !.lastShownAtUserMsgCount = e.userMsgCount,
                      !.followUpMessage = e.followUpMessage,
                      !.showFollowUpPrompt = TRUE]
  /\ UNCHANGED <<now, token, cache, calls, tool, pass, chain, workflow>>

\* lines 190-192
HandleContinueChat ==
  /\ hook' = PendingEffect(hook, resetFollowUp(hook))
  /\ UNCHANGED <<now, token, cache, calls, tool, pass, chain, workflow>>

\* lines 194-202, up to the await
HandleNewChatForFollowUp ==
  /\ hook.pc = "idle"
  /\ Len(hook.inFlight) < MaxInFlight
  /\ LET h1 == resetFollowUp([hook EXCEPT
                                !.messageToSend = hook.followUpMessage,
                                !.lastShownAtUserMsgCount = 0,
                                !.nSummarize = 0,
                                !.nNewChat = 0])
     IN hook' = PendingEffect(hook, QueueAndNavigate(h1))
  /\ UNCHANGED <<now, token, cache, calls, tool, pass, chain, workflow>>

\* lines 204-217 and 228-232, up to the first await
HandleNewChatWithSummary ==
  /\ hook.pc = "idle"
  /\ Len(hook.inFlight) < MaxInFlight
  /\ LET h1 == [resetFollowUp([hook EXCEPT
                                 !.messageToSend = hook.followUpMessage,
                                 !.nSummarize = 0,
                                 !.nNewChat = 0])
                  EXCEPT !.priorChatSummary = {}]
         h2 == IF h1.hasSummarize /\ h1.currentChatId # "none"
               THEN IF h1.currentChatId = "invalid"
                    THEN [h1 EXCEPT !.summaryError = {"invalid chat id"}]
                    ELSE [h1 EXCEPT !.nSummarize = @ + 1,
                                    !.pc = "summary"]
               ELSE QueueAndNavigate(h1)
     IN hook' = PendingEffect(hook, h2)
  /\ UNCHANGED <<now, token, cache, calls, tool, pass, chain, workflow>>

\* summarizeRecentAction resolves or rejects (lines 217-232)
SummarySettles(resolved) ==
  /\ hook.pc = "summary"
  /\ LET h1 == IF resolved
               THEN QueueAndNavigate([hook EXCEPT
                                        !.priorChatSummary = {"summary"}])
               ELSE [hook EXCEPT !.summaryError = {"summary failed"},
                                 !.pc = "idle"]
     IN hook' = PendingEffect(hook, h1)
  /\ UNCHANGED <<now, token, cache, calls, tool, pass, chain, workflow>>

\* handleNewChat settles and the handler returns
NewChatSettles ==
  /\ hook.pc = "newChat"
  /\ hook' = [hook EXCEPT !.pc = "idle"]
  /\ UNCHANGED <<now, token, cache, calls, tool, pass, chain, workflow>>

\* a send of the pending message resolves or rejects (lines 254-274: the
\* try and the catch do the same, then the finally)
SendSettles(i) ==
  /\ i \in DOMAIN hook.inFlight
  /\ LET h1 == [hook EXCEPT
                  !.pendingMessage = IF hook.inFlight[i].stale THEN @ ELSE {},
                  !.dispatched = FALSE,
                  !.inFlight = RemoveAt(@, i)]
     IN hook' = PendingEffect(hook, h1)
  /\ UNCHANGED <<now, token, cache, calls, tool, pass, chain, workflow>>

InitHook ==
  /\ now = 0
  /\ token = TRUE
  /\ cache = <<>>
  /\ calls = [c \in CallIds |-> IdleCall]
  /\ tool = IdleTool
  /\ pass = IdlePass
  /\ chain = IdleChain
  /\ workflow = IdleWorkflow
  /\ \E currentChatId \in {"none", "valid", "invalid"},
        hasSummarize \in BOOLEAN :
        hook = [IdleHook EXCEPT !.currentChatId = currentChatId,
                                !.hasSummarize = hasSummarize]

NextHook ==
  \/ \E m \in ChatMessages : MessageArrives(m)
  \/ GeneratingChanges
  \/ MaybeShowFollowUpPrompt
  \/ HandleContinueChat
  \/ HandleNewChatForFollowUp
  \/ HandleNewChatWithSummary
  \/ \E resolved \in BOOLEAN : SummarySettles(resolved)
  \/ NewChatSettles
  \/ \E i \in 1..MaxInFlight : SendSettles(i)

SpecHook == InitHook /\ [][NextHook]_vars

\* the same hook in an application where the user also moves between
\* chats: the currentChatId prop changes
ChatIds == {"none", "valid", "other"}

ChatChanges(chatId) ==
  /\ chatId # hook.currentChatId
  /\ hook.nChatChanges < MaxChatChanges
  /\ Len(hook.inFlight) < MaxInFlight
  /\ hook' = PendingEffect(hook, [hook EXCEPT !.currentChatId = chatId,
                                              !.nChatChanges = @ + 1])
  /\ UNCHANGED <<now, token, cache, calls, tool, pass, chain, workflow>>

NextDispatch ==
  \/ \E m \in ChatMessages : MessageArrives(m)
  \/ MaybeShowFollowUpPrompt
  \/ HandleNewChatForFollowUp
  \/ HandleNewChatWithSummary
  \/ \E resolved \in BOOLEAN : SummarySettles(resolved)
  \/ NewChatSettles
  \/ \E i \in 1..MaxInFlight : SendSettles(i)
  \/ \E chatId \in ChatIds : ChatChanges(chatId)

SpecDispatch == InitHook /\ [][NextDispatch]_vars

(***************************************************************************)
(* Workflow tokens (convex/workflowTokens.ts) and completeWorkflow         *)
(* (convex/agents/orchestration_persistence.ts).  A Convex mutation is a   *)
(* serializable transaction: its read, test and patch are one step.  An    *)
(* error message is a sequence of pieces.                                  *)
(***************************************************************************)
TOKEN_NOT_FOUND == "TOKEN_NOT_FOUND"
TOKEN_WRONG_STATUS == "TOKEN_WRONG_STATUS"

\* mutant: a token is completed whatever its status
completeToken_NoStatusTest(tokens, tokenId) ==
  IF tokens[tokenId] = "missing"
  THEN [error |-> {<<TOKEN_NOT_FOUND,
                     ": completeToken called with nonexistent tokenId">>},
        tokens |-> tokens]
  ELSE [error |-> {},
        tokens |-> [tokens EXCEPT ![tokenId] = "completed"]]

completeToken(tokens, tokenId) ==
  IF tokens[tokenId] = "missing"
  THEN [error |-> {<<TOKEN_NOT_FOUND,
                     ": completeToken called with nonexistent tokenId">>},
        tokens |-> tokens]
  ELSE IF tokens[tokenId] # "active"
  THEN [error |-> {<<TOKEN_WRONG_STATUS,
                     ": completeToken expected active, got ",
                     tokens[tokenId]>>},
        tokens |-> tokens]
  ELSE [error |-> {},
        tokens |-> [tokens EXCEPT ![tokenId] = "completed"]]

invalidateToken(tokens, tokenId) ==
  IF tokens[tokenId] = "missing"
  THEN [error |-> {<<TOKEN_NOT_FOUND,
                     ": invalidateToken called with nonexistent tokenId">>},
        tokens |-> tokens]
  ELSE IF tokens[tokenId] # "active"
  THEN [error |-> {<<TOKEN_WRONG_STATUS,
                     ": invalidateToken expected active, got ",
                     tokens[tokenId]>>},
        tokens |-> tokens]
  ELSE [error |-> {},
        tokens |-> [tokens EXCEPT ![tokenId] = "invalidated"]]

\* what ctx.runMutation can reject with besides the mutation's own error
InfraErrors == {<<"Connection lost while action was in flight">>,
                <<"Too many concurrent requests">>}

\* the mutation's error as the action sees it: as thrown, or wrapped
MutationErrorSeen(error, wrapped) ==
  IF wrapped THEN {<<"Uncaught Error: ">> \o m : m \in error} ELSE error

\* mutant: the expected race is recognised by the start of the message
completeWorkflowCatch_StartsWith(msg) ==
  IF msg[1] = TOKEN_WRONG_STATUS \/ msg[1] = TOKEN_NOT_FOUND
  THEN "returned"
  ELSE "threw"

\* the catch block of completeWorkflow (lines 170-186)
completeWorkflowCatch(msg) ==
  IF includes(msg, TOKEN_WRONG_STATUS) \/ includes(msg, TOKEN_NOT_FOUND)
  THEN "returned"
  ELSE "threw"

\* completeWorkflow after `await ctx.runMutation(...)` settled
AfterCompletion(completion, error) ==
  IF error = {}
  THEN [completion EXCEPT !.pc = "returned"]
  ELSE LET msg == CHOOSE m \in error : TRUE
       IN IF completeWorkflowCatch(msg) = "returned"
          THEN [completion EXCEPT !.pc = "returned", !.mutationError = error]
          ELSE [completion EXCEPT !.pc = "threw", !.mutationError = error,
                                  !.thrown = error]

\* createToken: a new document with status active
CreateToken(tokenId) ==
  /\ workflow.tokens[tokenId] = "missing"
  /\ workflow' = [workflow EXCEPT !.tokens[tokenId] = "active"]
  /\ UNCHANGED <<now, token, cache, calls, tool, pass, chain, hook>>

\* some caller (the stream's error handler, another completion) runs the
\* completeToken mutation
CompleteTokenRuns(tokenId) ==
  /\ LET done == completeToken(workflow.tokens, tokenId)
     IN workflow' = [workflow EXCEPT
                      !.tokens = done.tokens,
                      !.last = [op |-> "completeToken", tokenId |-> tokenId,
                                error |-> done.error]]
  /\ UNCHANGED <<now, token, cache, calls, tool, pass, chain, hook>>

\* some caller runs the invalidateToken mutation
InvalidateTokenRuns(tokenId) ==
  /\ LET done == invalidateToken(workflow.tokens, tokenId)
     IN workflow' = [workflow EXCEPT
                      !.tokens = done.tokens,
                      !.last = [op |-> "invalidateToken", tokenId |-> tokenId,
                                error |-> done.error]]
  /\ UNCHANGED <<now, token, cache, calls, tool, pass, chain, hook>>

\* completeWorkflow is called (lines 160-169): without a token id it
\* returns, with one it awaits the completeToken mutation
CompleteWorkflowStarts(workflowTokenId) ==
  /\ workflow.completion.pc = "idle"
  /\ workflow' = [workflow EXCEPT
                    !.completion =
                       [IdleCompletion EXCEPT
                          !.pc = IF workflowTokenId = {} THEN "returned"
                                 ELSE "calling",
                          !.workflowTokenId = workflowTokenId]]
  /\ UNCHANGED <<now, token, cache, calls, tool, pass, chain, hook>>

\* the awaited mutation runs and completeWorkflow resumes
CompletionSettles(wrapped) ==
  /\ workflow.completion.pc = "calling"
  /\ LET tokenId == CHOOSE t \in workflow.completion.workflowTokenId : TRUE
         done == completeToken(workflow.tokens, tokenId)
     IN workflow' = [workflow EXCEPT
                      !.tokens = done.tokens,
                      !.completion =
                         AfterCompletion(@, MutationErrorSeen(done.error,
                                                              wrapped))]
  /\ UNCHANGED <<now, token, cache, calls, tool, pass, chain, hook>>

\* ctx.runMutation rejects without the mutation having been applied
CompletionFails(error) ==
  /\ workflow.completion.pc = "calling"
  /\ workflow' = [workflow EXCEPT
                    !.completion = AfterCompletion(@, {error})]
  /\ UNCHANGED <<now, token, cache, calls, tool, pass, chain, hook>>

\* the caller of completeWorkflow has its outcome
CompleteWorkflowEnds ==
  /\ workflow.completion.pc \in {"returned", "threw"}
  /\ workflow' = [workflow EXCEPT !.completion = IdleCompletion]
  /\ UNCHANGED <<now, token, cache, calls, tool, pass, chain, hook>>

NextTokens ==
  \/ \E tokenId \in TokenIds : CreateToken(tokenId)
  \/ \E tokenId \in TokenIds : CompleteTokenRuns(tokenId)
  \/ \E tokenId \in TokenIds : InvalidateTokenRuns(tokenId)
  \/ \E workflowTokenId \in {{}} \cup {{t} : t \in TokenIds} :
        CompleteWorkflowStarts(workflowTokenId)
  \/ \E wrapped \in BOOLEAN : CompletionSettles(wrapped)
  \/ \E error \in InfraErrors : CompletionFails(error)
  \/ CompleteWorkflowEnds

SpecTokens == InitResearch /\ [][NextTokens]_vars

(***************************************************************************)
(* Properties.                                                             *)
(***************************************************************************)
\* message contains part as a contiguous piece
Contains(message, part) ==
  \E i \in 1..(Len(message) - Len(part) + 1) :
     SubSeq(message, i, i + Len(part) - 1) = part

Done(c)     == calls[c].pc = "done"
Returned(c) == Done(c) /\ calls[c].outcome = "returned"
IsSuccess(result) == result.error = Undefined
\* the call invoked a fetch strategy
Invoked(c)  == calls[c].nNative + calls[c].nBrowserless > 0
\* call c begins in this step
Begins(c)   == calls[c].pc = "idle" /\ calls'[c].pc # "idle"

\* C1 (as claimed): two calls on the same valid URL, the second starting
\* within the success TTL of the first, return the same ScrapeResult and at
\* most one of them invokes the fetch strategies.
C1_Original ==
  \A a \in CallIds : \A b \in CallIds \ {a} :
     ( /\ Returned(a) /\ Returned(b)
       /\ calls[a].url # 0 /\ calls[a].url = calls[b].url
       /\ calls[a].started <= calls[b].started
       /\ calls[b].started < calls[a].started + CACHE_TTL_SCRAPE_MS )
     => /\ calls[a].result = calls[b].result
        /\ ~(Invoked(a) /\ Invoked(b))

\* C1 (amended): a call that starts on a valid URL after another call on
\* that URL has returned, while that call's result is still the unexpired
\* cache entry of the URL, returns the same ScrapeResult at once and never
\* invokes a fetch strategy.
C1_CachedRepeat ==
  [][ \A a \in CallIds : \A b \in CallIds \ {a} :
        ( /\ Returned(a) /\ calls[a].url # 0
          /\ Begins(b) /\ calls'[b].url = calls[a].url
          /\ CacheHas(cache, calls[a].url)
          /\ CacheGet(cache, calls[a].url).val = calls[a].result
          /\ CacheGet(cache, calls[a].url).exp > now )
        => /\ calls'[b].pc = "done"
           /\ calls'[b].outcome = "returned"
           /\ calls'[b].result = calls[a].result
           /\ calls'[b].nNative = 0 /\ calls'[b].nBrowserless = 0 ]_vars

C1_Witness ==
  \E a \in CallIds : \E b \in CallIds \ {a} :
     /\ Returned(a) /\ Returned(b)
     /\ calls[a].url # 0 /\ calls[a].url = calls[b].url
     /\ ~calls[a].hit /\ calls[a].nNative = 1
     /\ calls[b].hit /\ ~Invoked(b)
     /\ calls[b].result = calls[a].result
     /\ calls[a].started < calls[b].started

\* C2: at every point a scrape call can observe, the cache holds at most
\* SCRAPE_CACHE_MAX_ENTRIES entries.
C2_CacheCapacity == Len(cache) <= SCRAPE_CACHE_MAX_ENTRIES

\* a write to a full cache has evicted the oldest entry
C2_Witness ==
  /\ Len(cache) = SCRAPE_CACHE_MAX_ENTRIES
  /\ ~CacheHas(cache, NumUrls + 1)
  /\ \E u \in Urls : CacheHas(cache, u)

\* C3: when Direct Fetch fails with ClientError, Timeout or FetchFailed, the
\* call invokes Headless Render exactly once, whatever happens afterwards.
FallbackCodes == {"HTTP_CLIENT_ERROR", "TIMEOUT", "FETCH_FAILED"}

C3_FallbackOnce ==
  \A c \in CallIds :
     ( /\ calls[c].nativeRes.tag = "failure"
       /\ calls[c].nativeRes.errorCode \in FallbackCodes )
     => calls[c].nBrowserless = 1

C3_Witness ==
  \E c \in CallIds :
     /\ Done(c)
     /\ calls[c].nativeRes.tag = "failure"
     /\ calls[c].nativeRes.errorCode = "TIMEOUT"
     /\ calls[c].blRes.tag = "success"
     /\ calls[c].blError # <<>>
     /\ calls[c].nBrowserless = 1

\* C4: when Direct Fetch fails with NotHtml, Headless Render is never
\* invoked in that call and the call returns a failure ScrapeResult.
C4_NotHtmlNoFallback ==
  \A c \in CallIds :
     ( /\ calls[c].nativeRes.tag = "failure"
       /\ calls[c].nativeRes.errorCode = "NOT_HTML" )
     => /\ calls[c].nBrowserless = 0
        /\ calls[c].pc \in {"done"}
        /\ calls[c].outcome = "returned"
        /\ ~IsSuccess(calls[c].result)

C4_Witness ==
  \E c \in CallIds :
     /\ Returned(c)
     /\ calls[c].nativeRes.errorCode = "NOT_HTML"
     /\ calls[c].result.errorCode = {"NOT_HTML"}

\* C5: when Direct Fetch succeeds and its HTML fails the quality gate, the
\* call invokes Headless Render exactly once, and if the Headless Render
\* HTML passes the gate the call returns that extraction as a success.
QualityGateErrors ==
  {<<"Content too short", " after cleaning">>,
   <<"Content quality check failed">>}

C5_RetryAfterGate ==
  \A c \in CallIds :
     ( /\ calls[c].nativeRes.tag = "success"
       /\ calls[c].nativeError \in QualityGateErrors )
     => /\ calls[c].nBrowserless = 1
        /\ ( /\ calls[c].blRes.tag = "success"
             /\ extractAndClean(calls[c].url, calls[c].blRes.html).ok )
           => /\ Returned(c)
              /\ IsSuccess(calls[c].result)
              /\ calls[c].result
                   = extractAndClean(calls[c].url, calls[c].blRes.html).result

C5_Witness ==
  \E c \in CallIds :
     /\ Returned(c)
     /\ calls[c].nativeRes.tag = "success"
     /\ calls[c].nativeError = <<"Content quality check failed">>
     /\ calls[c].nBrowserless = 1
     /\ calls[c].blRes.tag = "success"
     /\ IsSuccess(calls[c].result)
     /\ calls[c].result.title = "Rendered"

\* C6: every ScrapeResult returned or cached without an error has content
\* of at least MIN_CONTENT_LENGTH characters, whichever strategy produced the
\* HTML.
C6_SuccessAboveFloor ==
  /\ \A c \in CallIds :
        (Returned(c) /\ IsSuccess(calls[c].result))
        => calls[c].result.content.len >= MIN_CONTENT_LENGTH
  /\ \A i \in DOMAIN cache :
        IsSuccess(cache[i].val)
        => cache[i].val.content.len >= MIN_CONTENT_LENGTH

\* Headless Render HTML that cleans to exactly the floor is a success and
\* is cached
C6_Witness ==
  \E c \in CallIds :
     /\ Returned(c) /\ IsSuccess(calls[c].result)
     /\ calls[c].blRes.tag = "success"
     /\ calls[c].result.content.len = MIN_CONTENT_LENGTH
     /\ CacheHas(cache, calls[c].url)
     /\ CacheGet(cache, calls[c].url).val = calls[c].result

\* C7 (as claimed): for every input URL the top-level scrape operation
\* (scrapeWithCheerio and the scrapeUrl action) ends by returning a
\* ScrapeResult with title and content set, and error and errorCode set on
\* failure; it never ends by throwing.
C7_AlwaysReturns ==
  \A c \in CallIds :
     Done(c)
     => /\ calls[c].outcome = "returned"
        /\ calls[c].result.title # ""
        /\ calls[c].result.content.kind # "none"
        /\ (calls[c].result.error = Undefined)
             <=> (calls[c].result.errorCode = Undefined)

\* C8 (as claimed): every call of a fetch strategy ends by returning one
\* FetchResult variant; none ends by raising.
C8_StrategiesNeverRaise ==
  \A c \in CallIds :
     /\ calls[c].nativeRes.tag # "raised"
     /\ calls[c].contentRes.tag # "raised"
     /\ calls[c].unblockRes.tag # "raised"
     /\ calls[c].blRes.tag # "raised"

\* C9 (as claimed): when a call tried both the Direct Fetch path and the
\* Headless Render path and ends in failure, the error of the result
\* contains the failure message of each path.
DirectFailure(c) ==
  IF calls[c].nativeRes.tag = "failure" THEN calls[c].nativeRes.message
  ELSE calls[c].nativeError
HeadlessFailure(c) ==
  IF calls[c].blRes.tag = "failure" THEN calls[c].blRes.message
  ELSE calls[c].blError

C9_ErrorNamesBothPaths ==
  \A c \in CallIds :
     ( /\ Returned(c)
       /\ calls[c].nNative = 1 /\ calls[c].nBrowserless = 1
       /\ calls[c].nativeRes.tag # "raised"
       /\ calls[c].blRes.tag # "raised"
       /\ ~IsSuccess(calls[c].result) )
     => \A message \in calls[c].result.error :
           /\ Contains(message, DirectFailure(c))
           /\ Contains(message, HeadlessFailure(c))

\* C10 (as claimed): Direct Fetch succeeds, its extraction is too short and
\* the Headless Render retry fails with any message: the result has
\* errorCode CONTENT_TOO_SHORT and an error naming both failures.
TooShort == <<"Content too short", " after cleaning">>

ShortThenRetryFailed(c) ==
  /\ Returned(c)
  /\ calls[c].nativeRes.tag = "success"
  /\ calls[c].nativeError = TooShort
  /\ calls[c].blRes.tag = "failure"

NamesBothFailures(c) ==
  \A message \in calls[c].result.error :
     /\ includes(message, "Native extraction failed")
     /\ includes(message, "Browserless fetch failed")

C10_Original ==
  \A c \in CallIds :
     ShortThenRetryFailed(c)
     => /\ calls[c].result.errorCode = {"CONTENT_TOO_SHORT"}
        /\ calls[c].result.error # Undefined
        /\ NamesBothFailures(c)

\* C10 (amended): the error names both failures, and the errorCode is
\* CONTENT_TOO_SHORT unless the Headless Render message contains "HTTP 4",
\* "HTTP 5" or "timeout", which classify first (in that order).
C10_CodeFollowsRetryMessage ==
  \A c \in CallIds :
     ShortThenRetryFailed(c)
     => /\ calls[c].result.error # Undefined
        /\ NamesBothFailures(c)
        /\ calls[c].result.errorCode =
             { IF includes(calls[c].blRes.message, "HTTP 4")
                 THEN "HTTP_CLIENT_ERROR"
               ELSE IF includes(calls[c].blRes.message, "HTTP 5")
                 THEN "HTTP_SERVER_ERROR"
               ELSE IF includes(calls[c].blRes.message, "timeout")
                 THEN "TIMEOUT"
               ELSE "CONTENT_TOO_SHORT" }

\* the retry failed for want of a token: CONTENT_TOO_SHORT
C10_Witness ==
  \E c \in CallIds :
     /\ ShortThenRetryFailed(c)
     /\ calls[c].blRes = NotConfigured
     /\ calls[c].result.errorCode = {"CONTENT_TOO_SHORT"}
     /\ NamesBothFailures(c)

\* C11 (as claimed): the errorCode of every failure ScrapeResult is one of
\* the eight taxonomy classes, and a scrape that fails because Direct Fetch
\* failed, with no successful fallback, reports the class of that failure.
Taxonomy ==
  {"HTTP_CLIENT_ERROR", "HTTP_SERVER_ERROR", "TIMEOUT", "NOT_HTML",
   "FETCH_FAILED", "CONTENT_TOO_SHORT", "QUALITY_CHECK_FAILED", "INVALID_URL"}

C11_Taxonomy ==
  \A c \in CallIds :
     (Returned(c) /\ ~IsSuccess(calls[c].result))
     => /\ calls[c].result.errorCode \subseteq Taxonomy
        /\ ( /\ calls[c].nativeRes.tag = "failure"
             /\ calls[c].blRes.tag \in {"none", "failure"} )
           => calls[c].result.errorCode = {calls[c].nativeRes.errorCode}

\* C12: in every ScrapeResult returned by the scrape operation or stored in
\* the cache, error is set exactly when content is the synthesized
\* placeholder message, and errorCode is set exactly when error is set.
ErrorMarksPlaceholder(result) ==
  /\ (result.error # Undefined) <=> (result.content.kind = "placeholder")
  /\ (result.error = Undefined) <=> (result.content.kind = "extracted")
  /\ (result.errorCode # Undefined) <=> (result.error # Undefined)

C12_ErrorIffPlaceholder ==
  /\ \A c \in CallIds : Returned(c) => ErrorMarksPlaceholder(calls[c].result)
  /\ \A i \in DOMAIN cache : ErrorMarksPlaceholder(cache[i].val)

\* a failure built by the catch block has been returned and cached
C12_Witness ==
  \E c \in CallIds :
     /\ Returned(c) /\ ~calls[c].hit
     /\ calls[c].result.content.kind = "placeholder"
     /\ calls[c].result.errorCode = {"HTTP_SERVER_ERROR"}
     /\ CacheHas(cache, calls[c].url)
     /\ CacheGet(cache, calls[c].url).val = calls[c].result

\* C13 (as claimed): the content of every success ScrapeResult is at most
\* MAX_CONTENT_LENGTH characters long, whatever the length of the extracted
\* text.
C13_ContentBounded ==
  \A c \in CallIds :
     (Returned(c) /\ IsSuccess(calls[c].result))
     => calls[c].result.content.len <= MAX_CONTENT_LENGTH

\* C14 (as claimed): after a call for URL u has returned a failure at time
\* t, every call for u that starts before t + ERROR_CACHE_TTL_MS returns
\* that failure without invoking a fetch strategy.  (The call started no
\* later than t, so a start before started + TTL is a start before t + TTL.)
C14_Original ==
  [][ \A a \in CallIds : \A b \in CallIds \ {a} :
        ( /\ Returned(a) /\ ~calls[a].hit /\ calls[a].url # 0
          /\ ~IsSuccess(calls[a].result)
          /\ Begins(b) /\ calls'[b].url = calls[a].url
          /\ now < calls[a].started + ERROR_CACHE_TTL_MS )
        => /\ calls'[b].pc = "done"
           /\ calls'[b].result = calls[a].result
           /\ calls'[b].nNative = 0 /\ calls'[b].nBrowserless = 0 ]_vars

\* C14 (amended): a call for a valid URL u that ends in failure at time t
\* stores that failure as u's cache entry, expiring at
\* t + ERROR_CACHE_TTL_MS; a call for u that starts while a failure is u's
\* cache entry returns it without invoking a fetch strategy if it starts
\* before the expiry, and invokes Direct Fetch if it starts at or after it.
C14_FailureWindow ==
  [][ \A b \in CallIds :
        /\ ( /\ calls[b].pc # "done" /\ calls'[b].pc = "done"
             /\ calls'[b].outcome = "returned"
             /\ ~calls'[b].hit /\ calls'[b].url # 0
             /\ ~IsSuccess(calls'[b].result) )
           => /\ CacheHas(cache', calls'[b].url)
              /\ CacheGet(cache', calls'[b].url).val = calls'[b].result
              /\ CacheGet(cache', calls'[b].url).exp
                   = now + ERROR_CACHE_TTL_MS
        /\ \A u \in Urls :
             ( /\ Begins(b) /\ calls'[b].url = u
               /\ CacheHas(cache, u)
               /\ ~IsSuccess(CacheGet(cache, u).val) )
             => IF now < CacheGet(cache, u).exp
                THEN /\ calls'[b].pc = "done"
                     /\ calls'[b].outcome = "returned"
                     /\ calls'[b].result = CacheGet(cache, u).val
                     /\ calls'[b].nNative = 0 /\ calls'[b].nBrowserless = 0
                ELSE /\ calls'[b].pc = "native"
                     /\ calls'[b].nNative = 1 ]_vars

\* one call was served the cached failure inside the window, another one
\* started when the window had closed and is fetching again
C14_Witness ==
  \E a \in CallIds : \E b \in CallIds \ {a} :
     /\ Returned(b) /\ calls[b].hit /\ ~IsSuccess(calls[b].result)
     /\ calls[b].started = 0
     /\ calls[a].url = calls[b].url
     /\ calls[a].pc = "native"
     /\ calls[a].started = ERROR_CACHE_TTL_MS

\* the classes of /content outcome the retry policy distinguishes
IsOkStatus(status) == status >= 200 /\ status <= 299

RetryableNet(net) ==
  \/ /\ net.kind = "reject"
     /\ (includes(net.message, "timeout") \/ includes(net.message, "abort"))
  \/ /\ net.kind = "response" /\ ~IsOkStatus(net.status)
     /\ (net.status = RATE_LIMIT_HTTP_STATUS \/ net.status >= 500)
  \/ /\ net.kind = "response" /\ IsOkStatus(net.status)
     /\ (net.siteStatus = RATE_LIMIT_HTTP_STATUS \/ net.siteStatus >= 500)

ForbiddenNet(net) ==
  /\ net.kind = "response"
  /\ IF IsOkStatus(net.status) THEN net.siteStatus = 403
                               ELSE net.status = 403

\* a /content request is sent again
SecondRequest(c) ==
  calls[c].attempt >= 1 /\ calls'[c].attempt = calls[c].attempt + 1

AfterRetryableFailureAndBackoff(c) ==
  /\ calls[c].pc = "sleep"
  /\ calls[c].contentRes.tag = "failure"
  /\ RetryableNet(calls[c].contentNet)
  /\ calls[c].backoffMs = RETRY_BASE_DELAY_MS * 2 ^ (calls[c].attempt - 1)

\* a /content request settles in this step with a failure that is not to be
\* retried
FinalContentFailure(c) ==
  /\ calls[c].pc = "content"
  /\ calls'[c].nContent = calls[c].nContent + 1
  /\ calls'[c].contentRes.tag = "failure"
  /\ \/ ~RetryableNet(calls'[c].contentNet)
     \/ calls[c].attempt = MAX_BROWSERLESS_ATTEMPTS

ReturnedAtOnce(c) ==
  /\ calls'[c].pc = "done"
  /\ calls'[c].blRes = FetchFailure(calls'[c].contentRes.errorCode,
                                    calls'[c].contentRes.message)
  /\ calls'[c].nUnblock = 0
  /\ calls'[c].backoffMs = calls[c].backoffMs

\* C15 (as claimed): one fetchBrowserless call requests /content at most
\* MAX_BROWSERLESS_ATTEMPTS times; a second request follows only a first
\* failure with HTTP 429, a 5xx status or a timeout, after the backoff
\* delay; any other failure, and a failure on the last attempt, is returned
\* at once without a further request or delay.
C15_Original ==
  [][ \A c \in CallIds :
        /\ calls'[c].attempt <= MAX_BROWSERLESS_ATTEMPTS
        /\ SecondRequest(c) => AfterRetryableFailureAndBackoff(c)
        /\ FinalContentFailure(c) => ReturnedAtOnce(c) ]_vars

\* C15 (amended): as claimed, except that a /content failure with status
\* 403 (of the API or of the origin site) is not returned: fetchBrowserless
\* sends one /unblock request instead, without retry or delay.
C15_RetryPolicy ==
  [][ \A c \in CallIds :
        /\ calls'[c].attempt <= MAX_BROWSERLESS_ATTEMPTS
        /\ SecondRequest(c) => AfterRetryableFailureAndBackoff(c)
        /\ FinalContentFailure(c)
           => IF ForbiddenNet(calls'[c].contentNet)
              THEN /\ calls'[c].pc = "unblock"
                   /\ calls'[c].nUnblock = 1
                   /\ calls'[c].attempt = calls[c].attempt
                   /\ calls'[c].backoffMs = calls[c].backoffMs
              ELSE ReturnedAtOnce(c) ]_vars

\* the second /content request is in flight after a 429 and the backoff
C15_Witness ==
  \E c \in CallIds :
     /\ calls[c].pc = "content"
     /\ calls[c].attempt = MAX_BROWSERLESS_ATTEMPTS
     /\ calls[c].nContent = 1
     /\ calls[c].contentNet.status = RATE_LIMIT_HTTP_STATUS
     /\ calls[c].backoffMs = RETRY_BASE_DELAY_MS

\* C16: when /content reports origin status 403 in X-Response-Code,
\* fetchBrowserless calls /unblock exactly once and that call's outcome is
\* final: success is returned as Success, failure as a Failure carrying both
\* messages, and no further /content request is made.
SiteForbidden(net) ==
  net.kind = "response" /\ IsOkStatus(net.status) /\ net.siteStatus = 403

C16_UnblockFinal ==
  \A c \in CallIds :
     (calls[c].contentRes.tag = "failure" /\ SiteForbidden(calls[c].contentNet))
     => /\ calls[c].nUnblock = 1
        /\ calls[c].pc \in {"unblock", "done"}
        /\ calls[c].attempt = calls[c].nContent
        /\ (Done(c) /\ calls[c].unblockRes.tag = "success")
           => calls[c].blRes = FetchSuccess(calls[c].unblockRes.html)
        /\ (Done(c) /\ calls[c].unblockRes.tag = "failure")
           => /\ calls[c].blRes.tag = "failure"
              /\ calls[c].blRes.errorCode = calls[c].unblockRes.errorCode
              /\ Contains(calls[c].blRes.message, calls[c].contentRes.message)
              /\ Contains(calls[c].blRes.message, calls[c].unblockRes.message)

\* /unblock failed after a site 403 seen on the second /content attempt
C16_Witness ==
  \E c \in CallIds :
     /\ Done(c)
     /\ SiteForbidden(calls[c].contentNet)
     /\ calls[c].nContent = MAX_BROWSERLESS_ATTEMPTS
     /\ calls[c].nUnblock = 1
     /\ calls[c].unblockRes.tag = "failure"
     /\ calls[c].blRes.tag = "failure"

\* C17: every invocation of the scrape_webpage tool eventually returns a
\* well-formed ScrapeToolResponse and never throws; if the scrape action has
\* not completed SCRAPE_TOOL_TIMEOUT_MS after its start the tool returns a
\* failure response (error set, contentLength 0) at that point.
WellFormedResponse(response) ==
  /\ response.title # ""
  /\ response.content.kind # "none"
  /\ (response.error = Undefined) <=> (response.errorMessage = Undefined)
  /\ response.error # Undefined => response.contentLength = 0

ToolReturnsWellFormed ==
  tool.pc = "returned"
  => /\ WellFormedResponse(tool.response)
     /\ tool.returnedAt <= SCRAPE_TOOL_TIMEOUT_MS
     /\ tool.timedOut
        => /\ tool.returnedAt = SCRAPE_TOOL_TIMEOUT_MS
           /\ tool.response.error # Undefined
           /\ tool.response.contentLength = 0
     /\ (calls[1].pc = "done" /\ ~tool.timedOut)
        => (tool.response.error = Undefined
              <=> (calls[1].outcome = "returned"
                   /\ IsSuccess(calls[1].result)))

C17_ToolAlwaysReturns ==
  /\ []ToolReturnsWellFormed
  /\ (tool.pc = "racing") ~> (tool.pc = "returned")

\* the timer ended an invocation whose scrape call was still waiting for
\* /content
C17_Witness ==
  /\ tool.pc = "returned"
  /\ tool.timedOut
  /\ tool.response.errorMessage = {ToolTimeoutMessage}
  /\ calls[1].pc = "content"

\* C18 (as claimed): the time a scrape call spends in Direct Fetch followed
\* by Headless Render stays below SCRAPE_TOOL_TIMEOUT_MS for every sequence
\* of strategy outcomes, so the tool's timer never fires while a fallback
\* that would still succeed is in progress.
C18_PipelineFitsTimeout ==
  /\ tool.elapsed < SCRAPE_TOOL_TIMEOUT_MS
  /\ ~( /\ tool.timedOut
        /\ Returned(1)
        /\ calls[1].nBrowserless = 1
        /\ IsSuccess(calls[1].result) )

\* what the pass was given, read off the settled promises
QuerySucceeded(i) ==
  pass.searches[i].state = "ok" /\ pass.searches[i].hasResults

RECURSIVE ResultsBefore(_)
ResultsBefore(i) ==
  IF i <= 1 THEN 0
  ELSE ResultsBefore(i - 1)
       + (IF QuerySucceeded(i - 1) THEN Len(pass.searches[i - 1].results)
          ELSE 0)

ScrapeFailed(i) ==
  \/ pass.scrapeOutcomes[i].threw
  \/ pass.scrapeOutcomes[i].content.error # Undefined

ScrapedUrls ==
  {pass.harvested.scrapedContent[k].url :
     k \in DOMAIN pass.harvested.scrapedContent}

\* C19: whichever queries and scrapes fail (by throwing or by returning an
\* error result), the pass runs on to its end and returns: a failed query
\* contributes no search result, a failed scrape no scraped content, every
\* other query's results and scrape's content are in the HarvestedData, and
\* the counts report the successes and failures.
C19_PartialFailureTolerated ==
  /\ pass.pc = "searching" => ~AllSettled(pass.searches)
  /\ pass.pc = "scraping" => ~AllSettled(pass.scrapes)
  /\ pass.pc = "done"
     => /\ Len(pass.harvested.searchResults)
             = ResultsBefore(Len(pass.searches) + 1)
        /\ \A i \in DOMAIN pass.searches :
              QuerySucceeded(i)
              => \A j \in DOMAIN pass.searches[i].results :
                    pass.harvested.searchResults[ResultsBefore(i) + j].url
                      = pass.searches[i].results[j].url
        /\ \A i \in DOMAIN pass.targets :
              IF ScrapeFailed(i)
              THEN pass.targets[i].url \notin ScrapedUrls
              ELSE \E k \in DOMAIN pass.harvested.scrapedContent :
                      /\ pass.harvested.scrapedContent[k].url
                           = pass.targets[i].url
                      /\ pass.harvested.scrapedContent[k].contentLength
                           = pass.scrapeOutcomes[i].content.content.len
        /\ pass.stats.queriesExecuted = Len(pass.searches)
        /\ pass.stats.searchResultCount = Len(pass.harvested.searchResults)
        /\ pass.stats.scrapeSuccessCount
             = Cardinality({i \in DOMAIN pass.targets : ~ScrapeFailed(i)})
        /\ pass.stats.scrapeFailCount
             = Cardinality({i \in DOMAIN pass.targets : ScrapeFailed(i)})

\* a pass has ended in which one query threw, one scrape returned an error
\* result long enough to pass for content, and one scrape succeeded
C19_Witness ==
  /\ pass.pc = "done"
  /\ \E i \in DOMAIN pass.searches : pass.searches[i].state = "failed"
  /\ \E i \in DOMAIN pass.targets :
        /\ ~pass.scrapeOutcomes[i].threw
        /\ pass.scrapeOutcomes[i].content.error # Undefined
        /\ pass.scrapeOutcomes[i].content.content.len
             >= CONTENT_LIMITS_MIN_CONTENT_LENGTH
  /\ Len(pass.harvested.scrapedContent) = 1
  /\ pass.stats.scrapeSuccessCount = 1
  /\ pass.stats.scrapeFailCount = 1

\* C20 (as claimed): at the end of a pass every dispatched scrape candidate
\* is in exactly one of scrapedContent (no error, content of at least the
\* minimum length) and failedScrapeUrls (with its message in
\* failedScrapeErrors); a rejected URL is never in scrapedContent.
ScrapeAccepted(i) ==
  /\ ~pass.scrapeOutcomes[i].threw
  /\ pass.scrapeOutcomes[i].content.error = Undefined
  /\ pass.scrapeOutcomes[i].content.content.len
       >= CONTENT_LIMITS_MIN_CONTENT_LENGTH

C20_AcceptedOrFailed ==
  pass.pc = "done"
  => \A i \in DOMAIN pass.targets :
        LET url == pass.targets[i].url
        IN IF ScrapeAccepted(i)
           THEN /\ url \in ScrapedUrls
                /\ url \notin pass.harvested.failedScrapeUrls
           ELSE /\ url \notin ScrapedUrls
                /\ url \in pass.harvested.failedScrapeUrls
                /\ \E e \in pass.harvested.failedScrapeErrors : e.url = url

\* the relevance score the sort compares: a missing score counts as 0
SortScore(r) == r.relevanceScore
\* where a URL is first discovered in a list
FirstIndex(results, url) ==
  CHOOSE i \in DOMAIN results :
     /\ results[i].url = url
     /\ \A j \in 1..(i - 1) : results[j].url # url
Selected == pass.pc = "selected"

\* C21: for every list of candidates and every cap, the list returned by
\* selectScrapeTargets holds each URL at most once, is in non-increasing
\* order of relevance score, and is no longer than the cap.
C21_UniqueSortedCapped ==
  Selected
  => /\ \A p \in DOMAIN pass.targets : \A q \in DOMAIN pass.targets :
           p # q => pass.targets[p].url # pass.targets[q].url
     /\ \A p \in DOMAIN pass.targets : \A q \in DOMAIN pass.targets :
           p < q => SortScore(pass.targets[p]) >= SortScore(pass.targets[q])
     /\ Len(pass.targets) <= pass.maxScrapeUrls

\* a URL given twice with different scores, more distinct candidates than
\* the cap, and a list returned that fills the cap
C21_Witness ==
  /\ Selected
  /\ \E i \in DOMAIN pass.harvested.searchResults :
        \E j \in DOMAIN pass.harvested.searchResults :
           /\ i < j
           /\ pass.harvested.searchResults[i].url
                = pass.harvested.searchResults[j].url
           /\ pass.harvested.searchResults[i].relevanceScore
                > pass.harvested.searchResults[j].relevanceScore
  /\ Len(pass.targets) = pass.maxScrapeUrls
  /\ pass.maxScrapeUrls > 0
  /\ Cardinality({pass.harvested.searchResults[i].url :
                    i \in DOMAIN pass.harvested.searchResults})
       > pass.maxScrapeUrls

\* C22: the list returned by selectScrapeTargets is a function of its
\* input alone (a second call on the same input returns the same list),
\* and two returned candidates of equal relevance score stand in the order
\* in which their URLs were first discovered in the input.
C22_StableByDiscovery ==
  Selected
  => /\ pass.targets = selectScrapeTargets(pass.harvested.searchResults,
                                           pass.maxScrapeUrls)
     /\ \A p \in DOMAIN pass.targets : \A q \in DOMAIN pass.targets :
           ( /\ p < q
             /\ SortScore(pass.targets[p]) = SortScore(pass.targets[q]) )
           => FirstIndex(pass.harvested.searchResults, pass.targets[p].url)
                < FirstIndex(pass.harvested.searchResults,
                             pass.targets[q].url)

\* two candidates of equal score are returned, and the one discovered first
\* owes its score to a later duplicate that follows the other in the input
C22_Witness ==
  /\ Selected
  /\ Len(pass.targets) = 2
  /\ SortScore(pass.targets[1]) = SortScore(pass.targets[2])
  /\ \E i \in DOMAIN pass.harvested.searchResults :
        \E j \in DOMAIN pass.harvested.searchResults :
           \E k \in DOMAIN pass.harvested.searchResults :
              /\ i < j /\ j < k
              /\ pass.harvested.searchResults[i].url = pass.targets[1].url
              /\ pass.harvested.searchResults[j].url = pass.targets[2].url
              /\ pass.harvested.searchResults[k] = pass.targets[1]
              /\ pass.harvested.searchResults[i] # pass.targets[1]

\* a scrape of pass.targets[i] has been dispatched
Dispatched(i) ==
  /\ pass.pc \in {"scraping", "done"}
  /\ i \in DOMAIN pass.targets

\* C23 (as claimed): every candidate selectScrapeTargets returns, and so
\* every URL a Phase 2 scrape is dispatched for, has scheme http or https.
C23_HttpOnly ==
  \A i \in DOMAIN pass.targets :
     Dispatched(i) => pass.targets[i].url.scheme \in {"http", "https"}

\* the provider called i-th answered with a non-empty result set
ProviderHadResults(i) ==
  chain.answers[i].state = "ok" /\ chain.answers[i].results # <<>>

\* C24: the search provider chain never returns an empty list. When every
\* provider failed or returned none, the response is exactly the one
\* synthetic fallback result; when a provider returned a non-empty set the
\* response is that set and no provider of lower priority was called.
C24_NeverEmpty ==
  LET providers == ChainProviders(chain.hasSerpKey)
  IN /\ chain.called = SubSeq(providers, 1, Len(chain.called))
     /\ chain.pc = "done"
        => /\ chain.results # <<>>
           /\ Len(chain.answers) = Len(chain.called)
           /\ (\A i \in DOMAIN chain.answers : ~ProviderHadResults(i))
              => /\ chain.called = providers
                 /\ chain.results = <<SyntheticResult>>
           /\ \A i \in DOMAIN chain.answers :
                 ProviderHadResults(i)
                 => /\ chain.results = chain.answers[i].results
                    /\ i = Len(chain.called)

\* a search has returned the synthetic result after one provider threw and
\* another answered with no results
C24_Witness ==
  /\ chain.pc = "done"
  /\ chain.results = <<SyntheticResult>>
  /\ \E i \in DOMAIN chain.answers : chain.answers[i].state = "failed"
  /\ \E i \in DOMAIN chain.answers : chain.answers[i].state = "ok"
  /\ ~chain.hasRealResults

\* summarizeRecentAction rejects in this step, in a run of
\* handleNewChatWithSummary that was invoked while the prompt was shown
\* (the prompt is shown exactly when there is a follow-up message)
SummaryRejects ==
  /\ hook.pc = "summary"
  /\ hook'.pc = "idle"
  /\ hook.messageToSend # {}

\* C25 (as claimed): when handleNewChatWithSummary is invoked while the
\* follow-up prompt is shown and summarizeRecentAction rejects, then
\* summarizeRecentAction has been called exactly once, handleNewChat has not
\* been called, no pending message is queued, summaryError holds the
\* rejection error and the follow-up prompt is still shown.
C25_PromptStaysOpen ==
  [][ SummaryRejects
      => /\ hook'.nSummarize = 1
         /\ hook'.nNewChat = 0
         /\ hook'.pendingMessage = {}
         /\ hook'.summaryError = {"summary failed"}
         /\ hook'.showFollowUpPrompt ]_vars

\* C26 (as claimed): without BROWSERLESS_API_TOKEN no request is sent to the
\* rendering service, and a call whose Direct Fetch failed returns a result
\* whose error text is exactly the Direct Fetch failure message.
C26_DirectErrorAsIs ==
  ~token
  => \A c \in CallIds :
        /\ calls[c].nContent = 0
        /\ calls[c].nUnblock = 0
        /\ ( Returned(c) /\ calls[c].nativeRes.tag = "failure" )
           => calls[c].result.error = {calls[c].nativeRes.message}

\* the events of a pass in the order the generator can yield them
EventOrder ==
  <<"progress_searching", "search_complete", "progress_scraping",
    "scrape_complete">>
EventRank(type) == CHOOSE k \in DOMAIN EventOrder : EventOrder[k] = type
Emitted(type) == \E i \in DOMAIN pass.events : pass.events[i].type = type

\* C27: the events of one pass are a subsequence of progress(searching),
\* search_complete, progress(scraping), scrape_complete, in that order and
\* each at most once; search_complete is emitted only when every dispatched
\* search has settled; no scrape is dispatched before search_complete.
C27_EventOrder ==
  /\ \A i \in DOMAIN pass.events :
        \E k \in DOMAIN EventOrder : EventOrder[k] = pass.events[i].type
  /\ \A i \in DOMAIN pass.events : \A j \in DOMAIN pass.events :
        i < j => EventRank(pass.events[i].type) < EventRank(pass.events[j].type)
  /\ Emitted("search_complete") => AllSettled(pass.searches)
  /\ (pass.pc = "scraping" \/ pass.scrapes # <<>>)
     => Emitted("search_complete")

\* a pass has ended with all four events, one of its searches having failed
C27_Witness ==
  /\ pass.pc = "done"
  /\ Len(pass.events) = Len(EventOrder)
  /\ Len(pass.scrapes) = MaxScrape
  /\ \E i \in DOMAIN pass.searches : pass.searches[i].state = "failed"

\* call c runs the cache read path in this step
LooksUp(c) == Begins(c) /\ calls'[c].url # 0

\* C28: a scrape call never returns a cached entry whose expiry is at or
\* before the time of the lookup, and right after the cache read path has
\* run no entry of any key with expiry at or before that time is left.
C28_NoExpiredEntry ==
  [][ \A c \in CallIds :
        LooksUp(c)
        => /\ \A i \in DOMAIN cache' : cache'[i].exp > now
           /\ calls'[c].hit
              => \E i \in DOMAIN cache :
                    /\ cache[i].key = calls'[c].url
                    /\ cache[i].val = calls'[c].result
                    /\ cache[i].exp > now ]_vars

\* a failure of u was cached, and a call on u that started at the very
\* instant the entry expired found nothing, fetches, and the entry is gone
C28_Witness ==
  \E a \in CallIds : \E b \in CallIds \ {a} :
     /\ Returned(a) /\ ~calls[a].hit /\ calls[a].url # 0
     /\ ~IsSuccess(calls[a].result)
     /\ calls[b].pc = "native"
     /\ calls[b].url = calls[a].url
     /\ calls[b].started = calls[a].started + ERROR_CACHE_TTL_MS
     /\ now = calls[b].started
     /\ ~CacheHas(cache, calls[a].url)

\* the entry of k is the one the cache started with: never evicted, never
\* expired, never written again
IsWarm(c, k) == CacheHas(c, k) /\ CacheGet(c, k).val = WarmResult
\* a lookup of u is a hit in this step
HitOn(u) ==
  \E c \in CallIds : LooksUp(c) /\ calls'[c].hit /\ calls'[c].url = u
\* k is removed in this step although it has not expired
EvictedKey(k) ==
  /\ CacheHas(cache, k)
  /\ ~CacheHas(cache', k)
  /\ CacheGet(cache, k).exp > now
\* the eviction order: the keys of c from the next to be evicted to the last
KeyOrder(c) == [i \in DOMAIN c |-> c[i].key]
\* the entries of the cache that have not expired, in order
Unexpired == SelectSeq(cache, LAMBDA e : e.exp > now)
\* call c stores its result in this step
Writes(c) ==
  /\ calls[c].pc \notin {"idle", "done"}
  /\ calls'[c].pc = "done"

\* C29 (as claimed): after a hit on u, u is evicted by capacity only after
\* every other entry that was present at the time of the hit has been
\* evicted or has expired.  (A call still holds the result of its hit on
\* u; the entries the cache started with and still has were present then.)
C29_Original ==
  [][ \A a \in CallIds :
        ( /\ Done(a) /\ calls[a].hit
          /\ EvictedKey(calls[a].url) )
        => \A v \in FillUrls \ {calls[a].url} : ~IsWarm(cache, v) ]_vars

\* C29 (amended): a hit on u makes u the last entry of the eviction order
\* and leaves the other unexpired entries in the order they had; a lookup
\* that misses and a write reorder nothing, and a write evicts only from
\* the front of the order.  So u is evicted only after every entry present
\* at its hit that has not been hit since has been evicted or has expired.
C29_HitMovesLast ==
  [][ \A c \in CallIds :
        LET u == calls'[c].url
        IN /\ (LooksUp(c) /\ calls'[c].hit)
              => KeyOrder(cache')
                   = SelectSeq(KeyOrder(Unexpired), LAMBDA k : k # u)
                       \o <<u>>
           /\ (LooksUp(c) /\ ~calls'[c].hit)
              => KeyOrder(cache') = KeyOrder(Unexpired)
           /\ Writes(c)
              => LET written == IF CacheHas(cache, u) THEN KeyOrder(cache)
                                ELSE Append(KeyOrder(cache), u)
                     evicted == Len(written) - Len(cache')
                 IN /\ evicted >= 0
                    /\ KeyOrder(cache')
                         = SubSeq(written, evicted + 1, Len(written)) ]_vars

\* both of the oldest entries were hit, the older one last; every entry
\* that was not hit has been evicted since, and the two are next to go
C29_Witness ==
  /\ Len(cache) = SCRAPE_CACHE_MAX_ENTRIES
  /\ cache[1].key = NumUrls + 2
  /\ cache[2].key = NumUrls + 1
  /\ IsWarm(cache, cache[1].key)
  /\ IsWarm(cache, cache[2].key)
  /\ \E a \in CallIds : Done(a) /\ calls[a].hit /\ calls[a].url = cache[1].key

\* C30 (as claimed): when a write makes the cache exceed its capacity the
\* entries removed are the least recently inserted-or-hit ones and the
\* entry just written is not among them; and a write for u, whether u was
\* absent or is overwritten, makes u the last entry of the eviction order.
C30_Original ==
  [][ \A c \in CallIds :
        Writes(c)
        => LET u == calls'[c].url
               others == SelectSeq(KeyOrder(cache), LAMBDA k : k # u)
               kept == SubSeq(KeyOrder(cache'), 1, Len(cache') - 1)
               evicted == Len(others) - Len(kept)
           IN /\ CacheHas(cache', u)
              /\ cache'[Len(cache')].key = u
              /\ evicted >= 0
              /\ kept = SubSeq(others, evicted + 1, Len(others)) ]_vars

\* C30 (amended): a write for u leaves u in the cache with the value just
\* written and the cache within its capacity.  If u was absent it becomes
\* the last entry of the eviction order, and as many entries as exceed the
\* capacity are removed from the front of the order.  If u was present the
\* write replaces its value and expiry where it stands: the order does not
\* change and nothing is removed.
C30_WriteKeepsPlace ==
  [][ \A c \in CallIds :
        Writes(c)
        => LET u == calls'[c].url
               excess == IF Len(cache) + 1 > SCRAPE_CACHE_MAX_ENTRIES
                         THEN Len(cache) + 1 - SCRAPE_CACHE_MAX_ENTRIES
                         ELSE 0
           IN /\ CacheHas(cache', u)
              /\ CacheGet(cache', u).val = calls'[c].result
              /\ Len(cache') <= SCRAPE_CACHE_MAX_ENTRIES
              /\ IF CacheHas(cache, u)
                 THEN KeyOrder(cache') = KeyOrder(cache)
                 ELSE KeyOrder(cache')
                        = SubSeq(KeyOrder(cache), excess + 1, Len(cache))
                            \o <<u>> ]_vars

\* the full cache holds two URLs written after the start, and the one that
\* stands in front was written last: a second scrape of it that was in
\* flight overwrote its entry
C30_Witness ==
  \E u \in Urls : \E v \in Urls :
     /\ CacheHas(cache, u) /\ CacheHas(cache, v)
     /\ CacheIndex(cache, u) < CacheIndex(cache, v)
     /\ IsSuccess(CacheGet(cache, u).val)
     /\ IsSuccess(CacheGet(cache, v).val)
     /\ CacheGet(cache, u).exp > CacheGet(cache, v).exp
     /\ Len(cache) = SCRAPE_CACHE_MAX_ENTRIES
     /\ \E c \in CallIds :
           /\ Returned(c) /\ ~calls[c].hit /\ calls[c].url = u
           /\ calls[c].result = CacheGet(cache, u).val

\* C31 (as claimed): the URLs announced in the progress(scraping) event are
\* the URLs the Phase 2 scrapes are dispatched for, in the same order.
C31_AnnouncedAreDispatched ==
  \A e \in DOMAIN pass.events :
     pass.events[e].type = "progress_scraping"
     => pass.events[e].urls = [i \in DOMAIN pass.targets |-> pass.targets[i].url]

\* the answers, in planned-query order, that supply enrichment data: an
\* enrichment object with at least one field
CarriesEnrichment(search) ==
  /\ search.state = "ok"
  /\ search.hasResults
  /\ \E e \in search.enrichment : e # NoFields

Carriers == {i \in DOMAIN pass.searches : CarriesEnrichment(pass.searches[i])}

\* C32: once the searches are harvested, the enrichment of the harvested
\* data is, field for field, the enrichment of the first answer in
\* planned-query order that carries enrichment data (and empty when no
\* answer carries any); nothing of a later answer is in it, and it stays so
\* through the scrape phase.
C32_EnrichmentFromFirst ==
  pass.pc \in {"scraping", "done"}
  => IF Carriers = {}
     THEN pass.harvested.serpEnrichment = NoFields
     ELSE LET first == CHOOSE i \in Carriers : \A j \in Carriers : i <= j
          IN pass.searches[first].enrichment = {pass.harvested.serpEnrichment}

\* two answers carry different enrichment fields, the first one after an
\* answer whose enrichment object is empty or absent is used
C32_Witness ==
  /\ pass.pc = "done"
  /\ Cardinality(Carriers) = 2
  /\ \E e \in pass.searches[2].enrichment :
        /\ e.answerBox # {}
        /\ e.answerBox # pass.harvested.serpEnrichment.answerBox
  /\ pass.harvested.serpEnrichment.knowledgeGraph = {1}
  /\ pass.harvested.serpEnrichment.relatedSearches = {1}
  /\ pass.harvested.scrapedContent # <<>>

\* C33: within one scrape call fetchNative is invoked at most once and
\* fetchBrowserless at most once, whether it is entered as the fallback of
\* a failed fetch or as the retry after a failed extraction; and once
\* rendered HTML has failed the quality gate the call is over, with that
\* single render.
C33_OneFetchOneRender ==
  \A c \in CallIds :
     /\ calls[c].nNative <= 1
     /\ calls[c].nBrowserless <= 1
     /\ calls[c].nBrowserless = 1 => calls[c].via \in {"fallback", "retry"}
     /\ calls[c].blError # <<>>
        => /\ calls[c].pc = "done"
           /\ calls[c].nBrowserless = 1
           /\ ~IsSuccess(calls[c].result)

\* both ways into the render are seen to end in rendered HTML that fails
\* the gate: here the fallback after a failed fetch, after two /content
\* requests of the one render
C33_Witness ==
  \E c \in CallIds :
     /\ Returned(c)
     /\ calls[c].via = "fallback"
     /\ calls[c].nativeRes.tag = "failure"
     /\ calls[c].nContent = MAX_BROWSERLESS_ATTEMPTS
     /\ calls[c].blError # <<>>
     /\ calls[c].nNative = 1 /\ calls[c].nBrowserless = 1

\* the entries of a cache as a set, whatever their order
Entries(c) == {c[i] : i \in DOMAIN c}

\* C34: a cache hit changes nothing but the eviction order: after the hit
\* the cache holds exactly the entries that had not expired, each with the
\* key, value and expiry it had, the hit entry among them (now last) with
\* the expiry it was written with, and the value returned is the stored one.
C34_HitChangesOrderOnly ==
  [][ \A c \in CallIds :
        (LooksUp(c) /\ calls'[c].hit)
        => /\ Entries(cache') = Entries(Unexpired)
           /\ Len(cache') = Len(Unexpired)
           /\ CacheHas(cache, calls'[c].url)
           /\ cache'[Len(cache')] = CacheGet(cache, calls'[c].url)
           /\ calls'[c].result = CacheGet(cache, calls'[c].url).val ]_vars

\* a hit later than the write, beside another unexpired entry: the entry
\* still expires when the TTL set at its writing runs out
C34_Witness ==
  \E c \in CallIds :
     /\ Returned(c) /\ calls[c].hit
     /\ calls[c].started > 0
     /\ Len(cache) = NumUrls
     /\ cache[Len(cache)].key = calls[c].url
     /\ cache[Len(cache)].exp < calls[c].started + CACHE_TTL_SCRAPE_MS
     /\ cache[Len(cache)].exp > now

\* C35 (as claimed): while the cache holds an unexpired success result for
\* u, no step puts a failure result for u in its place.
C35_SuccessNotDowngraded ==
  [][ \A u \in Urls :
        (/\ CacheHas(cache, u)
         /\ CacheGet(cache, u).exp > now
         /\ IsSuccess(CacheGet(cache, u).val)
         /\ CacheHas(cache', u))
        => IsSuccess(CacheGet(cache', u).val) ]_vars

\* C36: a scrapeWithCheerio call whose URL fails validation returns at
\* once a failure result with errorCode INVALID_URL, invokes no fetch
\* strategy, and leaves the cache exactly as it was: no purge of expired
\* entries, no lookup, no write.
C36_InvalidUrlTouchesNothing ==
  [][ \A c \in CallIds :
        (Begins(c) /\ calls'[c].outcome = "returned" /\ calls'[c].url = 0)
        => /\ calls'[c].pc = "done"
           /\ calls'[c].result.errorCode = {"INVALID_URL"}
           /\ ~IsSuccess(calls'[c].result)
           /\ calls'[c].nNative = 0 /\ calls'[c].nBrowserless = 0
           /\ calls'[c].nContent = 0 /\ calls'[c].nUnblock = 0
           /\ ~calls'[c].hit
           /\ cache' = cache ]_vars

\* an invalid URL was answered while the cache held an expired entry, which
\* a lookup would have purged
C36_Witness ==
  \E c \in CallIds :
     /\ Returned(c)
     /\ calls[c].result.errorCode = {"INVALID_URL"}
     /\ calls[c].started = now
     /\ \E i \in DOMAIN cache : cache[i].exp <= now

\* C37 (as claimed): /unblock is requested only after a /content answer
\* whose X-Response-Code header gives the origin site's status as 403, after
\* no other /content failure (an HTTP error status of the rendering service
\* itself included), and at most once in a fetchBrowserless call.
C37_UnblockOnlyOnSite403 ==
  [][ \A c \in CallIds :
        /\ calls'[c].nUnblock <= 1
        /\ calls'[c].nUnblock > calls[c].nUnblock
           => SiteForbidden(calls'[c].contentNet) ]_vars

\* a direct completeToken or invalidateToken call ran in this step
MutationRan == workflow'.last # workflow.last
\* the mutation awaited by completeWorkflow settled in this step
CompletionRan ==
  workflow.completion.pc = "calling" /\ workflow'.completion.pc # "calling"

\* C38: the status of a token changes only from active to completed, by a
\* completeToken mutation, or from active to invalidated, by an
\* invalidateToken mutation; completed and invalidated never change again;
\* and a completeToken or invalidateToken mutation on a token that is
\* missing or not active fails with TOKEN_NOT_FOUND or TOKEN_WRONG_STATUS
\* and changes no status, however the mutations interleave.
C38_TokenLifecycle ==
  [][ /\ \A t \in TokenIds :
           LET before == workflow.tokens[t]
               after  == workflow'.tokens[t]
           IN /\ before \in {"completed", "invalidated"} => after = before
              /\ (before = "active" /\ after # before)
                 => \/ /\ after = "completed"
                       /\ \/ /\ MutationRan
                             /\ workflow'.last.op = "completeToken"
                             /\ workflow'.last.tokenId = t
                          \/ /\ CompletionRan
                             /\ workflow.completion.workflowTokenId = {t}
                    \/ /\ after = "invalidated"
                       /\ MutationRan
                       /\ workflow'.last.op = "invalidateToken"
                       /\ workflow'.last.tokenId = t
              /\ before = "missing" => after \in {"missing", "active"}
      /\ MutationRan
         => LET t == workflow'.last.tokenId
                before == workflow.tokens[t]
            IN IF before = "active"
               THEN workflow'.last.error = {}
               ELSE /\ workflow'.tokens = workflow.tokens
                    /\ \E m \in workflow'.last.error :
                          m[1] = IF before = "missing" THEN TOKEN_NOT_FOUND
                                 ELSE TOKEN_WRONG_STATUS ]_vars

\* a completeToken call on an invalidated token has failed with
\* TOKEN_WRONG_STATUS beside a completed token
C38_Witness ==
  /\ workflow.last.op = "completeToken"
  /\ workflow.tokens[workflow.last.tokenId] = "invalidated"
  /\ \E m \in workflow.last.error : m[1] = TOKEN_WRONG_STATUS
  /\ \E t \in TokenIds : workflow.tokens[t] = "completed"

\* the error is one of the two named token errors, wrapped or not
IsTokenRaceError(error) ==
  \E m \in error : includes(m, TOKEN_WRONG_STATUS)
                   \/ includes(m, TOKEN_NOT_FOUND)

\* C39: when the completeToken mutation awaited by completeWorkflow finds
\* the token already completed or invalidated by a mutation that ran first
\* (or missing), completeWorkflow returns normally and the token keeps the
\* status it had; when it finds the token active it completes it and
\* returns; and when the mutation fails with anything but
\* TOKEN_WRONG_STATUS or TOKEN_NOT_FOUND, completeWorkflow throws that
\* error and no status changes.
C39_RaceIsSuppressed ==
  [][ CompletionRan
      => LET t == CHOOSE x \in workflow.completion.workflowTokenId : TRUE
             before == workflow.tokens[t]
             after == workflow'.completion
         IN IF after.mutationError = {}
            THEN /\ after.pc = "returned"
                 /\ before = "active"
                 /\ workflow'.tokens = [workflow.tokens EXCEPT
                                          ![t] = "completed"]
            ELSE IF IsTokenRaceError(after.mutationError)
            THEN /\ after.pc = "returned"
                 /\ after.thrown = {}
                 /\ before # "active"
                 /\ workflow'.tokens = workflow.tokens
            ELSE /\ after.pc = "threw"
                 /\ after.thrown = after.mutationError
                 /\ after.thrown \subseteq InfraErrors
                 /\ workflow'.tokens = workflow.tokens ]_vars

\* completeWorkflow has returned normally after losing the race to an
\* invalidation of its token, the error having reached it wrapped
C39_Witness ==
  /\ workflow.completion.pc = "returned"
  /\ \E m \in workflow.completion.mutationError :
        m[1] # TOKEN_WRONG_STATUS /\ includes(m, TOKEN_WRONG_STATUS)
  /\ workflow.last.op = "invalidateToken"
  /\ workflow.last.error = {}
  /\ workflow.completion.workflowTokenId = {workflow.last.tokenId}
  /\ workflow.tokens[workflow.last.tokenId] = "invalidated"

\* C40 (as claimed): a message queued by the hook is sent through sendRef
\* at most once, and the prior-chat summary goes with at most one send,
\* however chat changes, effect runs and the settling of sends interleave.
C40_SentAtMostOnce ==
  /\ hook.nSent <= 1
  /\ hook.nWithSummary <= 1

====
